---- MODULE Spec2Model ----
(***************************************************************************)
(* The virtio MMIO transport (VirtioMmioDevice), its activator and the     *)
(* activation hand-off between the MMIO dispatcher threads (vCPUs calling  *)
(* VmOps::mmio_write) and the activation worker.                           *)
(***************************************************************************)
EXTENDS Integers, Naturals, Sequences, FiniteSets, TLC

(***************************************************************************)
(* Bounds of the model.                                                    *)
(***************************************************************************)
\* number of barriers Barrier::new(2) may create in write before writes that
\* need a further activation are cut off
MaxBarriers == 2

\* guest memory covers the guest physical addresses [0, MemSize)
MemSize == 65536

\* number of calls of the backing device's activate without a reset in
\* between after which restores that would activate once more are cut off
MaxActivateCalls == 2

(***************************************************************************)
(* Program constants.                                                      *)
(***************************************************************************)
DEVICE_INIT == 0
DEVICE_ACKNOWLEDGE == 1
DEVICE_DRIVER == 2
DEVICE_DRIVER_OK == 4
DEVICE_FEATURES_OK == 8
DEVICE_FAILED == 128

VENDOR_ID == 0

\* 0x74726976
MMIO_MAGIC_VALUE == 1953655158

MMIO_VERSION == 2

NOTIFY_REG_OFFSET == 80
INTERRUPT_STATUS_USED_RING == 1
INTERRUPT_STATUS_CONFIG_CHANGED == 2

\* Option::None for the integer valued options (barrier handles)
None == 0 - 1

\* the barrier created by VirtioMmioDevice::new (activate_barrier); barriers
\* created by write are numbered from 1
ActivateBarrier == 0

\* the backing device's queue_max_sizes()
QueueMaxSizes == <<2, 4>>

NumQueues == Len(QueueMaxSizes)

\* the vCPU threads that dispatch guest MMIO accesses
Dispatchers == {"vcpu0", "vcpu1"}

Worker == "worker"

(***************************************************************************)
(* Integer helpers.                                                        *)
(***************************************************************************)
RECURSIVE BitAnd(_, _)
BitAnd(a, b) ==
    IF a = 0 \/ b = 0 THEN 0
    ELSE (IF a % 2 = 1 /\ b % 2 = 1 THEN 1 ELSE 0) + 2 * BitAnd(a \div 2, b \div 2)

RECURSIVE BitOr(_, _)
BitOr(a, b) ==
    IF a = 0 THEN b
    ELSE IF b = 0 THEN a
    ELSE (IF a % 2 = 1 \/ b % 2 = 1 THEN 1 ELSE 0) + 2 * BitOr(a \div 2, b \div 2)

\* a & !b
BitAndNot(a, b) == a - BitAnd(a, b)

\* a 32-bit value as its two 16-bit halves (the four bytes of a register
\* access, LittleEndian::write_u32)
U32(n) == [hi16 |-> (n \div 65536) % 65536, lo16 |-> n % 65536]

\* !0 as u32
U32Max == [hi16 |-> 65535, lo16 |-> 65535]

\* a 64-bit value as its two 32-bit halves
U64(hi, lo) == [hi |-> hi, lo |-> lo]

\* (v as u64) << n; the values the model writes are below 2^15 and the shifts
\* are 0, 32 or a few bits more, so no bit crosses a half or leaves the value
Shl64(v, n) == IF n >= 32 THEN U64(v * 2 ^ (n - 32), 0) ELSE U64(0, v * 2 ^ n)

\* variant: the low page whatever the shift
Shr64LowUnshifted(x, n) == x.lo

\* (x >> n) as u32 for a 64-bit x and n in {0, 32}
Shr64Low(x, n) == IF n = 0 THEN x.lo ELSE IF n = 32 THEN x.hi ELSE 0

(***************************************************************************)
(* The virtqueue (virtio_queue::Queue) as the transport uses it.  A guest  *)
(* physical address is kept as its two 32-bit halves.                      *)
(***************************************************************************)
Addr(hi, lo) == [hi |-> hi, lo |-> lo]

NewQueue(max) ==
    [max_size |-> max, size |-> max, ready |-> FALSE,
     desc_table |-> Addr(0, 0), avail_ring |-> Addr(0, 0), used_ring |-> Addr(0, 0),
     next_avail |-> 0, next_used |-> 0]

\* Queue::reset
QueueReset(q) == NewQueue(q.max_size)

IsPowerOfTwo(n) == n \in {1, 2, 4, 8, 16, 32, 64, 128, 256, 512, 1024, 2048,
                          4096, 8192, 16384, 32768}

\* Queue::set_size(v as u16): an invalid size is logged and dropped
SetSize(q, v) ==
    LET s == v % 65536
    IN  IF s > q.max_size \/ s = 0 \/ ~IsPowerOfTwo(s) THEN q
        ELSE [q EXCEPT !.size = s]

\* Queue::set_ready(v == 1)
SetReady(q, v) == [q EXCEPT !.ready = (v = 1)]

\* Queue::set_*_address(low, high) with one half given: the other half is
\* kept, and an address that breaks the alignment is logged and dropped
SetAddrHalf(old, half, v, align) ==
    LET new == IF half = "lo" THEN Addr(old.hi, v) ELSE Addr(v, old.lo)
    IN  IF new.lo % align # 0 THEN old ELSE new

SetDescTable(q, half, v) ==
    [q EXCEPT !.desc_table = SetAddrHalf(q.desc_table, half, v, 16)]

SetAvailRing(q, half, v) ==
    [q EXCEPT !.avail_ring = SetAddrHalf(q.avail_ring, half, v, 2)]

SetUsedRing(q, half, v) ==
    [q EXCEPT !.used_ring = SetAddrHalf(q.used_ring, half, v, 4)]

\* the last byte of a ring of `bytes` bytes at address a lies in guest memory
InMemory(a, bytes) == a.hi = 0 /\ a.lo + bytes < MemSize

\* Queue::is_valid(mem)
QueueIsValid(q) ==
    /\ q.ready
    /\ InMemory(q.desc_table, 16 * q.size)
    /\ InMemory(q.avail_ring, 6 + 2 * q.size)
    /\ InMemory(q.used_ring, 6 + 8 * q.size)

\* the event of queue i (queue_evts[i]); an event is named by a number that
\* differs from every queue index
QueueEvt(i) == 100 + i

(***************************************************************************)
(* State.                                                                  *)
(***************************************************************************)
VARIABLES
    \* VirtioMmioDevice
    device_activated, features_select, acked_features_select, queue_select,
    interrupt_status, virtio_interrupt, driver_status, queues,
    shm_region_select, activate_evt, pending_activations,
    \* barriers: the parties that have called wait(), and the next fresh one
    arrived, nextBarrier,
    \* the backing virtio device
    devInterrupt, devPoisoned, activateCalls, resetCalls, lastAck,
    \* the dispatcher threads
    pc, held,
    \* the activation worker
    wpc, draining, act, workerErr,
    \* history
    everReady, lastZero, lastReset, lastActivate, completed,
    \* the last write and the last read as the guest issued them, the trigger
    \* call in progress on the adapter, the snapshot taken, the last restore
    op, rd, trig, snap, rst,
    \* the Vm's state with its last valid_transition call, the ioeventfds
    \* call in progress, and the maybe_activate call in progress
    vm, io, ma

xvars == <<device_activated, features_select, acked_features_select, queue_select,
           interrupt_status, virtio_interrupt, driver_status, queues,
           shm_region_select, activate_evt, pending_activations>>

bvars == <<arrived, nextBarrier>>

dvars == <<devInterrupt, devPoisoned, activateCalls, resetCalls, lastAck>>

tvars == <<pc, held>>

wvars == <<wpc, draining, act, workerErr>>

hvars == <<everReady, lastZero, lastReset, lastActivate, completed>>

nvars == <<op, rd, trig, snap, rst, vm, io, ma>>

vars == <<xvars, bvars, dvars, tvars, wvars, hvars, nvars>>

\* the interrupt adapter (VirtioInterruptIntx) bound to interrupt_status
Intx == "intx"

NoIntx == "none"

NoAct == [interrupt |-> NoIntx, memory |-> FALSE, queues |-> <<>>,
          barrier |-> None, snap |-> <<>>, handed |-> <<>>]

\* the arguments of the ack_features calls of a write: none
NoAck == <<>>

NoOp == [by |-> None, offset |-> None, len |-> 0, v |-> 0]

\* get_shm_regions() of a backing device without shared memory: None
NoShmRegions == [present |-> FALSE, addr |-> 0, region_list |-> <<>>]

NoRead == [offset |-> None, len |-> 0, before |-> U32(0), after |-> U32(0),
           shm |-> NoShmRegions]

NoTrigger == [pc |-> "idle", kind |-> [type |-> "none", index |-> 0], fired |-> <<>>, sink |-> "none",
              ret |-> "none"]

NoRestore == [ret |-> "none", fresh |-> FALSE, activates |-> <<>>, waited |-> FALSE]

\* Vm::new: state Created, no valid_transition call made yet
NewVm == [state |-> "Created", from |-> "none", to |-> "none", ret |-> "none", op |-> "none"]

NoIoeventfds == [called |-> FALSE, base |-> U64(U32(0), U32(0)), ret |-> <<>>]

\* no maybe_activate call in progress
NoMaybeActivate == [pc |-> "idle", needed |-> FALSE]

(***************************************************************************)
(* VirtioMmioDevice: predicates and the activator.                         *)
(***************************************************************************)
ReadyBits == DEVICE_ACKNOWLEDGE + DEVICE_DRIVER + DEVICE_DRIVER_OK + DEVICE_FEATURES_OK

\* variant: the ready bits tested as a mask
IsDriverReadyMask(status) ==
    BitAnd(status, ReadyBits) = ReadyBits /\ BitAnd(status, DEVICE_FAILED) = 0

IsDriverReady(status) ==
    status = ReadyBits /\ BitAnd(status, DEVICE_FAILED) = 0

IsDriverInit(status) == status = DEVICE_INIT

NeedsActivation(activated, status) == ~activated /\ IsDriverReady(status)

\* variant: a ready queue that is not valid is skipped
RECURSIVE ActivatorQueuesValidOnly(_, _)
ActivatorQueuesValidOnly(qs, from) ==
    IF from > Len(qs) THEN <<>>
    ELSE IF ~qs[from].ready \/ ~QueueIsValid(qs[from])
         THEN ActivatorQueuesValidOnly(qs, from + 1)
    ELSE <<[index |-> from - 1, queue |-> qs[from], evt |-> QueueEvt(from - 1)]>>
         \o ActivatorQueuesValidOnly(qs, from + 1)

\* the loop of prepare_activator over queues[from..]: the list of
\* (queue_index, cloned queue, cloned event) of the ready queues; a ready
\* queue that is not valid is logged and pushed all the same
RECURSIVE ActivatorQueues(_, _)
ActivatorQueues(qs, from) ==
    IF from > Len(qs) THEN <<>>
    ELSE IF ~qs[from].ready THEN ActivatorQueues(qs, from + 1)
    ELSE <<[index |-> from - 1, queue |-> qs[from], evt |-> QueueEvt(from - 1)]>>
         \o ActivatorQueues(qs, from + 1)

\* variant: the adapter cloned into the activator
InterruptAfterClone(interrupt) == interrupt

\* self.virtio_interrupt.take(): what the transport keeps of its adapter
InterruptAfterTake(interrupt) == NoIntx

\* VirtioMmioDeviceActivator built by prepare_activator(barrier)
PrepareActivator(qs, interrupt, barrier) ==
    [interrupt |-> interrupt, memory |-> TRUE, queues |-> ActivatorQueues(qs, 1),
     barrier |-> barrier, snap |-> qs, handed |-> <<>>]

\* variant: the transport's activate_barrier handed out
SharedBarrier(next) == ActivateBarrier

\* Arc::new(Barrier::new(2)) in write: a barrier nobody holds yet
FreshBarrier(next) == next

BarrierParties == 2

\* the barriers created so far (activate_barrier and those of earlier writes)
IssuedBarriers == 0 .. (nextBarrier - 1)

(***************************************************************************)
(* BusDevice::write, first part: the register decode and the activation    *)
(* check (mmio.rs 439-506).                                                *)
(***************************************************************************)
InControlWindow(offset, len) == offset \in 0 .. 255 /\ len = 4

InConfigWindow(offset) == offset \in 256 .. 4095

QueueRegs == {56, 68, 128, 132, 144, 148, 160, 164}

\* variant: a selector past the queues wraps around to a queue
WithQueueMutWrapped(qs, sel, offset, v) ==
    LET q == qs[(sel % Len(qs)) + 1]
        nq == CASE offset = 56  -> SetSize(q, v)
                [] offset = 68  -> SetReady(q, v)
                [] offset = 128 -> SetDescTable(q, "lo", v)
                [] offset = 132 -> SetDescTable(q, "hi", v)
                [] offset = 144 -> SetAvailRing(q, "lo", v)
                [] offset = 148 -> SetAvailRing(q, "hi", v)
                [] offset = 160 -> SetUsedRing(q, "lo", v)
                [] offset = 164 -> SetUsedRing(q, "hi", v)
                [] OTHER -> q
    IN  [qs EXCEPT ![(sel % Len(qs)) + 1] = nq]

\* with_queue_mut: f applied to the selected queue, nothing when the
\* selector is out of range
WithQueueMut(qs, sel, offset, v) ==
    IF sel + 1 \notin 1 .. Len(qs) THEN qs
    ELSE LET q == qs[sel + 1]
             nq == CASE offset = 56  -> SetSize(q, v)
                     [] offset = 68  -> SetReady(q, v)
                     [] offset = 128 -> SetDescTable(q, "lo", v)
                     [] offset = 132 -> SetDescTable(q, "hi", v)
                     [] offset = 144 -> SetAvailRing(q, "lo", v)
                     [] offset = 148 -> SetAvailRing(q, "hi", v)
                     [] offset = 160 -> SetUsedRing(q, "lo", v)
                     [] offset = 164 -> SetUsedRing(q, "hi", v)
                     [] OTHER -> q
         IN  [qs EXCEPT ![sel + 1] = nq]

\* variant: the value shifted by the selector
AckFeaturesArgBySelector(v, select) == Shl64(v, select)

\* the argument of ack_features: u64::from(v) << (acked_features_select * 32)
AckFeaturesArg(v, select) == Shl64(v, select * 32)

\* the write takes the backing device's mutex (ack_features, write_config)
WriteLocksDevice(offset, len) ==
    \/ InControlWindow(offset, len) /\ offset = 32 /\ acked_features_select < 2
    \/ InConfigWindow(offset)

\* a thread that finds a mutex poisoned panics in lock().unwrap(); it still
\* holds the transport
DispatcherPanics(d) ==
    /\ pc' = [pc EXCEPT ![d] = "panicked"]
    /\ UNCHANGED <<xvars, bvars, dvars, held, wvars, hvars>>

\* no thread is inside a call on the transport, and none has panicked in one
TransportFree ==
    /\ \A d \in Dispatchers : pc[d] \notin {"reset_check", "panicked"}
    /\ rst.ret = "none"
    /\ ma.pc = "idle"

\* variant: a write that clears a status bit other than by writing 0 is
\* refused
StatusWrittenIfLegal(v, old) == IF v = 0 \/ BitAnd(v, old) = old THEN v ELSE old

\* 0x70 => self.driver_status = v
StatusWritten(v, old) == v

\* variant: the acknowledge clears every bit
FetchAndNotAll(status, v) == 0

\* interrupt_status.fetch_and(!(v as usize), SeqCst): one atomic update
FetchAndNot(status, v) == BitAndNot(status, v)

\* variant: the write goes on to the reset test after the push
PcAfterPushFallsThrough == "reset_check"

\* return Some(barrier): a write that pushed an activator ends there
PcAfterPush == "returned"

WriteDecode(d, offset, len, v) ==
    LET ctl == InControlWindow(offset, len)
        status == IF ctl /\ offset = 112 THEN StatusWritten(v, driver_status)
                  ELSE driver_status
        qs == IF ctl /\ offset \in QueueRegs
              THEN WithQueueMut(queues, queue_select, offset, v) ELSE queues
        b == FreshBarrier(nextBarrier)
    IN
    /\ pc[d] = "idle"
    /\ TransportFree
    /\ IF WriteLocksDevice(offset, len) /\ devPoisoned
       THEN DispatcherPanics(d)
       ELSE
        /\ features_select' = IF ctl /\ offset = 20 THEN v ELSE features_select
        /\ acked_features_select' = IF ctl /\ offset = 36 THEN v ELSE acked_features_select
        /\ queue_select' = IF ctl /\ offset = 48 THEN v ELSE queue_select
        /\ shm_region_select' = IF ctl /\ offset = 172 THEN v ELSE shm_region_select
        /\ interrupt_status' = IF ctl /\ offset = 100
                               THEN FetchAndNot(interrupt_status, v) ELSE interrupt_status
        /\ driver_status' = status
        /\ queues' = qs
        /\ lastAck' = IF ctl /\ offset = 32 /\ acked_features_select < 2
                      THEN <<AckFeaturesArg(v, acked_features_select)>> ELSE NoAck
        /\ everReady' = (everReady \/ status = ReadyBits)
        /\ lastReset' = "no"
        /\ lastZero' = (ctl /\ offset = 112 /\ v = 0)
        /\ resetCalls' = 0
        /\ IF NeedsActivation(device_activated, status)
           THEN /\ nextBarrier <= MaxBarriers
                /\ pending_activations' =
                       Append(pending_activations, PrepareActivator(qs, virtio_interrupt, b))
                /\ virtio_interrupt' = InterruptAfterTake(virtio_interrupt)
                /\ activate_evt' = activate_evt + 1
                /\ nextBarrier' = nextBarrier + 1
                /\ held' = [held EXCEPT ![d] = b]
                /\ pc' = [pc EXCEPT ![d] = PcAfterPush]
           ELSE /\ pc' = [pc EXCEPT ![d] = "reset_check"]
                /\ UNCHANGED <<pending_activations, virtio_interrupt, activate_evt,
                               nextBarrier, held>>
        /\ UNCHANGED <<device_activated, arrived, devInterrupt, devPoisoned, activateCalls,
                       wvars, lastActivate, completed>>

(***************************************************************************)
(* BusDevice::write, second part: the device reset check (mmio.rs 508-526) *)
(* and the return of None.                                                 *)
(***************************************************************************)
\* variant: the queues that are not ready dropped
ResetQueuesReadyOnly(qs) == SelectSeq(qs, LAMBDA q : q.ready)

\* variant: only the selected queue reset
ResetSelectedQueue(qs) ==
    [i \in 1 .. Len(qs) |-> IF i = queue_select + 1 THEN QueueReset(qs[i]) ELSE qs[i]]

\* self.queues.iter_mut().for_each(Queue::reset)
ResetQueues(qs) == [i \in 1 .. Len(qs) |-> QueueReset(qs[i])]

\* variant: the status left as the guest wrote it
StatusKept(status) == status

\* driver_status after a reset the backing device does not implement
StatusAfterFailedReset(status) == DEVICE_FAILED

\* variant: the adapter the reset returned is dropped
InterruptNotReinstalled(returned, kept) == kept

\* self.virtio_interrupt = Some(interrupt_cb) after reset() returned
\* Some(interrupt_cb)
InterruptAfterReset(returned, kept) == returned

\* someReset: the backing device's reset() returns Some(interrupt)
WriteResetCheck(d, someReset) ==
    /\ UNCHANGED nvars
    /\ pc[d] = "reset_check"
    /\ IF device_activated /\ IsDriverInit(driver_status)
       THEN IF devPoisoned
            THEN DispatcherPanics(d)
            ELSE /\ resetCalls' = resetCalls + 1
                 /\ IF someReset
                    THEN /\ virtio_interrupt' = InterruptAfterReset(devInterrupt, virtio_interrupt)
                         /\ devInterrupt' = NoIntx
                         /\ device_activated' = FALSE
                         /\ queues' = ResetQueues(queues)
                         /\ queue_select' = 0
                         /\ activateCalls' = 0
                         /\ lastReset' = "some"
                         /\ UNCHANGED driver_status
                    ELSE /\ driver_status' = StatusAfterFailedReset(driver_status)
                         /\ lastReset' = "none"
                         /\ UNCHANGED <<virtio_interrupt, devInterrupt,
                                        device_activated, queues, queue_select,
                                        activateCalls>>
                 /\ pc' = [pc EXCEPT ![d] = "idle"]
                 /\ UNCHANGED <<features_select, acked_features_select, interrupt_status,
                                shm_region_select, activate_evt, pending_activations,
                                bvars, devPoisoned,
                                lastAck, held, wvars, everReady, lastZero,
                                lastActivate, completed>>
       ELSE /\ pc' = [pc EXCEPT ![d] = "idle"]
            /\ UNCHANGED <<xvars, bvars, dvars, held, wvars, hvars>>

(***************************************************************************)
(* VmOps::mmio_write after the bus returned Some(barrier): barrier.wait()  *)
(* (vm.rs 428-432).  A party of a Barrier::new(2) leaves wait() once both  *)
(* parties have called it.                                                 *)
(***************************************************************************)
BarrierTripped(b) == Cardinality(arrived[b]) >= BarrierParties

DispatcherBarrierWait(d) ==
    /\ UNCHANGED nvars
    /\ pc[d] = "returned"
    /\ arrived' = [arrived EXCEPT ![held[d]] = @ \cup {d}]
    /\ pc' = [pc EXCEPT ![d] = "in_barrier"]
    /\ UNCHANGED <<xvars, nextBarrier, dvars, held, wvars, hvars>>

DispatcherBarrierReleased(d) ==
    /\ UNCHANGED nvars
    /\ pc[d] = "in_barrier"
    /\ BarrierTripped(held[d])
    /\ pc' = [pc EXCEPT ![d] = "idle"]
    /\ held' = [held EXCEPT ![d] = None]
    /\ UNCHANGED <<xvars, bvars, dvars, wvars, hvars>>

(***************************************************************************)
(* The activation worker: woken by activate_evt, it drains                 *)
(* pending_activations and runs VirtioMmioDeviceActivator::activate on     *)
(* each record (mmio.rs 93-110).                                           *)
(***************************************************************************)
\* the worker goes on with the next drained record, or goes back to sleep
WorkerContinue(rest) ==
    IF rest = <<>>
    THEN /\ wpc' = "idle"
         /\ act' = NoAct
         /\ draining' = <<>>
    ELSE /\ wpc' = "activate"
         /\ act' = Head(rest)
         /\ draining' = Tail(rest)

WorkerDrain ==
    /\ UNCHANGED nvars
    /\ wpc = "idle"
    /\ activate_evt > 0
    /\ activate_evt' = 0
    /\ pending_activations' = <<>>
    /\ WorkerContinue(pending_activations)
    /\ UNCHANGED <<device_activated, features_select, acked_features_select,
                   queue_select, interrupt_status, virtio_interrupt, driver_status,
                   queues, shm_region_select, bvars, dvars, tvars, workerErr, hvars>>

\* variant: the flag stored whatever activate returned
ActivatedRegardless(ok, activated) == TRUE

\* variant: the flag is cleared when activate returned an error
ActivatedOnlyIfOk(ok, activated) == ok

\* device_activated after a backing activate that returned ok / an error:
\* `?` leaves activate before the store on an error
ActivatedAfter(ok, activated) == IF ok THEN TRUE ELSE activated

\* variant: the barrier waited on whatever activate returned
StepBarrierRegardless(ok, a) ==
    IF a.barrier # None THEN "barrier"
    ELSE IF ok THEN "return_ok" ELSE "return_err"

\* the worker's next step after a backing activate that returned ok / an
\* error: an error returns from activate at once
StepAfterActivate(ok, a) ==
    IF ~ok THEN "return_err"
    ELSE IF a.barrier # None THEN "barrier" ELSE "return_ok"

\* variant: the list made from the transport's queues when the activator runs
HandedQueuesLive(a, qs) == ActivatorQueues(qs, 1)

\* self.queues.take().unwrap(): the list the activator was built with is
\* what the backing device's activate receives; qs: the transport's queues
HandedQueues(a, qs) == a.queues

\* self.device.lock().unwrap().activate(memory.take().unwrap(),
\* interrupt.take().unwrap(), queues.take().unwrap())?  and the store
\* ok: the backing device's activate returns Ok(())
ActivatorActivate(ok) ==
    /\ UNCHANGED nvars
    /\ wpc = "activate"
    /\ IF devPoisoned
       THEN /\ wpc' = "panicked"
            /\ UNCHANGED <<xvars, bvars, dvars, tvars, draining, act, workerErr, hvars>>
       ELSE IF ~act.memory \/ act.interrupt = NoIntx
       THEN \* unwrap() of None panics while the device's mutex is held
            /\ wpc' = "panicked"
            /\ devPoisoned' = TRUE
            /\ UNCHANGED <<xvars, bvars, devInterrupt, activateCalls, resetCalls, lastAck, tvars,
                           draining, act, workerErr, hvars>>
       ELSE /\ activateCalls' = activateCalls + 1
            /\ devInterrupt' = IF ok THEN act.interrupt ELSE NoIntx
            /\ act' = [act EXCEPT !.memory = FALSE, !.interrupt = NoIntx, !.queues = <<>>,
                                   !.handed = HandedQueues(act, queues)]
            /\ device_activated' = ActivatedAfter(ok, device_activated)
            /\ completed' = IF ok /\ device_activated' /\ act.barrier # None
                            THEN completed \cup {act.barrier} ELSE completed
            /\ wpc' = StepAfterActivate(ok, act)
            /\ lastActivate' = IF ok THEN "ok" ELSE "err"
            /\ UNCHANGED <<features_select, acked_features_select, queue_select,
                           interrupt_status, virtio_interrupt, driver_status, queues,
                           shm_region_select, activate_evt, pending_activations, bvars,
                           devPoisoned, resetCalls,
                           lastAck, tvars, draining, workerErr, everReady, lastZero,
                           lastReset>>

\* barrier.wait() of the activator (mmio.rs 102-106)
ActivatorBarrierWait ==
    /\ UNCHANGED nvars
    /\ wpc = "barrier"
    /\ arrived' = [arrived EXCEPT ![act.barrier] = @ \cup {Worker}]
    /\ wpc' = "in_barrier"
    /\ UNCHANGED <<xvars, nextBarrier, dvars, tvars, draining, act, workerErr, hvars>>

ActivatorBarrierReleased ==
    /\ UNCHANGED nvars
    /\ wpc = "in_barrier"
    /\ BarrierTripped(act.barrier)
    /\ wpc' = "return_ok"
    /\ UNCHANGED <<xvars, bvars, dvars, tvars, draining, act, workerErr, hvars>>

\* activate has returned to the worker: an error is reported upward and ends
\* this round of the worker, the records drained with it are dropped
WorkerActivatorReturned ==
    /\ UNCHANGED nvars
    /\ wpc \in {"return_ok", "return_err"}
    /\ workerErr' = (workerErr \/ wpc = "return_err")
    /\ WorkerContinue(IF wpc = "return_err" THEN <<>> ELSE draining)
    /\ UNCHANGED <<xvars, bvars, dvars, tvars, hvars>>

(***************************************************************************)
(* BusDevice::read (mmio.rs 364-437).  The buffer of a read is given by    *)
(* the four bytes it held before the call; the read leaves it as it is or  *)
(* writes a 32-bit value into it.                                          *)
(***************************************************************************)
\* the backing device: device_type(), features(), get_shm_regions()
DeviceType == 2

DeviceFeatures == U64(1, 5)

DeviceShmRegions ==
    [present |-> TRUE, addr |-> 4096,
     region_list |-> <<[offset |-> 8192, len |-> U64(1, 16384)]>>]

\* config_generation is set by new and never written again
ConfigGeneration == 0

\* the offsets the decoder of read matches in the control window
ShmRegs == 176 .. 188

ReadRegs == {0, 4, 8, 12, 16, 52, 68, 96, 112, 252} \cup ShmRegs

\* with_queue: f of the selected queue, None when the selector is out of
\* range, and unwrap_or(0)
WithQueue(qs, sel, offset) ==
    IF sel + 1 \notin 1 .. Len(qs) THEN 0
    ELSE IF offset = 52 THEN qs[sel + 1].max_size
    ELSE IF qs[sel + 1].ready THEN 1 ELSE 0

\* variant: a region of length 0 for no region
NoShmRegionZeroLength == [offset |-> U64(U32(0), U32(0)), len |-> U64(U32(0), U32(0))]

\* (offset, length) for no region and for a selector past the list
NoShmRegion == [offset |-> U64(U32(0), U32(0)), len |-> U64(U32Max, U32Max)]

\* shm: what get_shm_regions() returns to the read.  The selector equals the
\* list length: region_list[shm_region_select] is indexed out of bounds
ShmSelectOutOfBounds(shm) ==
    /\ shm.present
    /\ shm_region_select = Len(shm.region_list)

ShmRegion(shm) ==
    IF ~shm.present \/ shm_region_select + 1 \notin 1 .. Len(shm.region_list)
    THEN NoShmRegion
    ELSE LET r == shm.region_list[shm_region_select + 1]
         IN  [offset |-> U64(U32(0), U32(r.offset + shm.addr)),
              len |-> U64(U32(r.len.hi), U32(r.len.lo))]

\* the value of a register the decoder of read knows
ReadRegister(offset, shm) ==
    CASE offset = 0   -> U32(MMIO_MAGIC_VALUE)
      [] offset = 4   -> U32(MMIO_VERSION)
      [] offset = 8   -> U32(DeviceType)
      [] offset = 12  -> U32(VENDOR_ID)
      [] offset = 16  -> IF features_select < 2
                         THEN U32(Shr64Low(DeviceFeatures, features_select * 32))
                         ELSE U32(0)
      [] offset = 52  -> U32(WithQueue(queues, queue_select, offset))
      [] offset = 68  -> U32(WithQueue(queues, queue_select, offset))
      [] offset = 96  -> U32(interrupt_status)
      [] offset = 112 -> U32(driver_status)
      [] offset = 252 -> U32(ConfigGeneration)
      [] offset = 176 -> ShmRegion(shm).len.lo
      [] offset = 180 -> ShmRegion(shm).len.hi
      [] offset = 184 -> ShmRegion(shm).offset.lo
      [] offset = 188 -> ShmRegion(shm).offset.hi
      [] OTHER -> U32(0)

\* variant: an unknown register read as 0
ReadUnknownZero(before) == U32(0)

\* the buffer after a read of an offset the decoder does not know: the read
\* returns before LittleEndian::write_u32
ReadUnknown(before) == before

\* the backing device's read_config(offset - 0x100, data)
DeviceReadConfig(offset) == U32(offset + 1)

\* the buffer after the read
ReadData(offset, len, before, shm) ==
    IF InControlWindow(offset, len)
    THEN IF offset \in ReadRegs THEN ReadRegister(offset, shm) ELSE ReadUnknown(before)
    ELSE IF InConfigWindow(offset) THEN DeviceReadConfig(offset - 256)
    ELSE before

\* the read takes the backing device's mutex
ReadLocksDevice(offset, len) ==
    \/ /\ InControlWindow(offset, len)
       /\ offset = 8 \/ (offset = 16 /\ features_select < 2) \/ offset \in ShmRegs
    \/ InConfigWindow(offset)

ReadShm(d, offset, len, before, shm) ==
    /\ pc[d] = "idle"
    /\ TransportFree
    /\ IF ReadLocksDevice(offset, len) /\ devPoisoned
       THEN DispatcherPanics(d) /\ UNCHANGED nvars
       ELSE IF InControlWindow(offset, len) /\ offset \in ShmRegs /\ ShmSelectOutOfBounds(shm)
       THEN \* the index panics while the device's mutex is held
            /\ pc' = [pc EXCEPT ![d] = "panicked"]
            /\ devPoisoned' = TRUE
            /\ UNCHANGED <<xvars, bvars, devInterrupt, activateCalls, resetCalls, lastAck,
                           held, wvars, hvars, nvars>>
       ELSE /\ rd' = [offset |-> offset, len |-> len, before |-> before,
                      after |-> ReadData(offset, len, before, shm), shm |-> shm]
            /\ pc' = [pc EXCEPT ![d] = "read"]
            /\ UNCHANGED <<xvars, bvars, dvars, held, wvars, hvars, op, trig, snap, rst, vm, io, ma>>

\* a read of the device whose shared memory is DeviceShmRegions
Read(d, offset, len, before) == ReadShm(d, offset, len, before, DeviceShmRegions)

\* read has returned: the dispatcher hands the buffer to the guest
ReadReturned(d) ==
    /\ pc[d] = "read"
    /\ pc' = [pc EXCEPT ![d] = "idle"]
    /\ rd' = NoRead
    /\ UNCHANGED <<xvars, bvars, dvars, held, wvars, hvars, op, trig, snap, rst, vm, io, ma>>

(***************************************************************************)
(* VirtioInterruptIntx::trigger (mmio.rs 56-67), called by the backing     *)
(* device on the adapter it was handed: the fetch_or, then the sink.       *)
(***************************************************************************)
ConfigKind == [type |-> "config", index |-> 0]

QueueKind(k) == [type |-> "queue", index |-> k]

\* variant: one status bit per queue index
InterruptStatusBitOfQueue(kind) ==
    IF kind.type = "config" THEN INTERRUPT_STATUS_CONFIG_CHANGED ELSE 2 ^ kind.index

\* variant: the configuration change reported one bit higher
InterruptStatusBitShifted(kind) ==
    IF kind.type = "config" THEN 4 ELSE INTERRUPT_STATUS_USED_RING

\* the status bit of an interrupt type
InterruptStatusBit(kind) ==
    IF kind.type = "config" THEN INTERRUPT_STATUS_CONFIG_CHANGED
    ELSE INTERRUPT_STATUS_USED_RING

\* the vector the sink is triggered on
SinkVector == 0

\* variant: the sink's error dropped
TriggerReturnsOk(sink) == "ok"

\* trigger returns what the sink returned
TriggerReturns(sink) == sink

\* variant: the bit not set before the sink is invoked
FetchOrSkipped(status, bit) == status

\* interrupt_status.fetch_or(status as usize, SeqCst): one atomic update
FetchOr(status, bit) == BitOr(status, bit)

TriggerFetchOr(kind) ==
    /\ trig.pc = "idle"
    /\ devInterrupt = Intx
    /\ interrupt_status' = FetchOr(interrupt_status, InterruptStatusBit(kind))
    /\ trig' = [pc |-> "sink", kind |-> kind, fired |-> <<>>, sink |-> "none",
                ret |-> "none"]
    /\ UNCHANGED <<device_activated, features_select, acked_features_select,
                   queue_select, virtio_interrupt, driver_status, queues,
                   shm_region_select, activate_evt, pending_activations, bvars, dvars,
                   tvars, wvars, hvars, op, rd, snap, rst, vm, io, ma>>

\* sinkOk: the interrupt sink's trigger(0) returns Ok(())
TriggerSink(sinkOk) ==
    LET res == IF sinkOk THEN "ok" ELSE "err"
    IN
    /\ trig.pc = "sink"
    /\ trig' = [trig EXCEPT !.pc = "return", !.fired = Append(@, SinkVector),
                            !.sink = res, !.ret = TriggerReturns(res)]
    /\ UNCHANGED <<xvars, bvars, dvars, tvars, wvars, hvars, op, rd, snap, rst, vm, io, ma>>

\* trigger has returned to the backing device
TriggerReturned ==
    /\ trig.pc = "return"
    /\ trig' = NoTrigger
    /\ UNCHANGED <<xvars, bvars, dvars, tvars, wvars, hvars, op, rd, snap, rst, vm, io, ma>>

(***************************************************************************)
(* Snapshot and restore (mmio.rs 198-264, 545-579).                        *)
(***************************************************************************)
NewQueues == [i \in 1 .. NumQueues |-> NewQueue(QueueMaxSizes[i])]

\* QueueState of state()
QueueState(q) ==
    [max_size |-> q.max_size, size |-> q.size, ready |-> q.ready,
     desc_table |-> q.desc_table, avail_ring |-> q.avail_ring, used_ring |-> q.used_ring]

\* VirtioMmioDeviceState of a transport with the given fields
StateOf(activated, fsel, asel, qsel, istatus, dstatus, qs, shm) ==
    [device_activated |-> activated, features_select |-> fsel,
     acked_features_select |-> asel, queue_select |-> qsel,
     interrupt_status |-> istatus, driver_status |-> dstatus,
     queues |-> [i \in 1 .. Len(qs) |-> QueueState(qs[i])],
     shm_region_select |-> shm]

\* VirtioMmioDevice::state()
State ==
    StateOf(device_activated, features_select, acked_features_select, queue_select,
            interrupt_status, driver_status, queues, shm_region_select)

\* the transport is as VirtioMmioDevice::new built it
FreshTransport ==
    /\ State = StateOf(FALSE, 0, 0, 0, 0, DEVICE_INIT, NewQueues, 0)
    /\ virtio_interrupt = Intx

NoSnapshot == [taken |-> FALSE, state |-> StateOf(FALSE, 0, 0, 0, 0, DEVICE_INIT, NewQueues, 0)]

\* the VMM thread is free to snapshot or restore: the vCPUs are not running
\* (Vm::snapshot asks for a paused Vm, Vm::restore starts the vCPUs after
\* the devices are restored) and the thread, which also runs the activation
\* worker, is not in an activation
VmmThreadFree ==
    /\ \A d \in Dispatchers : pc[d] = "idle"
    /\ wpc = "idle"
    /\ TransportFree

\* snapshot() of a paused transport, called by a Vm operation that ends with
\* the record vmAfter
SnapshotTransportBy(vmAfter) ==
    /\ VmmThreadFree
    /\ snap' = [taken |-> TRUE, state |-> State]
    /\ vm' = vmAfter
    /\ UNCHANGED <<xvars, bvars, dvars, tvars, wvars, hvars, op, rd, trig, rst, io, ma>>

\* snapshot() of a paused transport
SnapshotTransport == SnapshotTransportBy(vm)

\* Queue::used_idx(mem, Acquire): the 16-bit index at used_ring + 2 can be
\* read from guest memory
UsedIdxReadable(a) == a.hi = 0 /\ a.lo + 3 < MemSize

\* what Queue::used_idx reads at the used ring a in the guest memory numbered
\* idx: the memories differ from one another and from one address to the
\* next, the index at address 0 being idx itself
UsedIdxAt(idx, a) == (idx + (a.lo \div 4)) % 65536

\* try_set_*_address(..).unwrap() of the three rings does not panic
AddressesAligned(s) ==
    /\ s.desc_table.lo % 16 = 0
    /\ s.avail_ring.lo % 2 = 0
    /\ s.used_ring.lo % 4 = 0

\* variant: the ready flag not restored
SetStateQueueKeepReady(q, s) ==
    [SetSize(q, s.size) EXCEPT !.desc_table = s.desc_table,
                               !.avail_ring = s.avail_ring,
                               !.used_ring = s.used_ring]

\* set_state on one queue up to the used index reads: set_size, set_ready
\* and the three ring addresses (max_size is not restored)
SetStateQueue(q, s) ==
    [SetSize(q, s.size) EXCEPT !.ready = s.ready,
                               !.desc_table = s.desc_table,
                               !.avail_ring = s.avail_ring,
                               !.used_ring = s.used_ring]

\* variant: only the avail cursor taken from the used index
SetCursorsAvailOnly(q, idx) == [q EXCEPT !.next_avail = UsedIdxAt(idx, q.used_ring)]

\* set_next_avail(used_idx(..)) and set_next_used(used_idx(..)) of one queue
SetCursors(q, idx) ==
    [q EXCEPT !.next_avail = UsedIdxAt(idx, q.used_ring),
              !.next_used = UsedIdxAt(idx, q.used_ring)]

\* the loop of set_state over the queue records ss[from..]; idx numbers the
\* guest memory the used indexes are read from.  The loop ends at the first queue whose used
\* index cannot be read (res "err") or whose address is rejected ("panic").
RECURSIVE SetStateQueues(_, _, _, _)
SetStateQueues(qs, ss, from, idx) ==
    IF from > Len(ss) THEN [res |-> "ok", queues |-> qs]
    ELSE IF ~AddressesAligned(ss[from])
    THEN [res |-> "panic",
          queues |-> [qs EXCEPT ![from] =
                         [SetSize(qs[from], ss[from].size) EXCEPT !.ready = ss[from].ready]]]
    ELSE LET q == SetStateQueue(qs[from], ss[from])
         IN  IF ~UsedIdxReadable(q.used_ring)
             THEN [res |-> "err", queues |-> [qs EXCEPT ![from] = q]]
             ELSE SetStateQueues([qs EXCEPT ![from] = SetCursors(q, idx)],
                                 ss, from + 1, idx)

\* variant: the flag cleared by set_state
StoredActivatedCleared(s) == FALSE

\* self.device_activated.store(state.device_activated)
StoredActivated(s) == s.device_activated

\* set_state(state): the scalar fields, then the queues, then
\* shm_region_select when the loop went through
SetState(s, idx) ==
    LET r == SetStateQueues(queues, s.queues, 1, idx)
    IN  [res |-> r.res,
         device_activated |-> StoredActivated(s),
         features_select |-> s.features_select,
         acked_features_select |-> s.acked_features_select,
         queue_select |-> s.queue_select,
         interrupt_status |-> s.interrupt_status,
         driver_status |-> s.driver_status,
         queues |-> r.queues,
         shm_region_select |-> IF r.res = "ok" THEN s.shm_region_select
                               ELSE shm_region_select]

\* what restore finds under "{id}-section" in the snapshot it is given
Sections == {"absent", "undecodable", "good"}

\* variant: the section taken as found whatever the snapshot holds
SectionFoundAlways(section) == TRUE

\* snapshot.snapshot_data.get("{id}-section") is Some
SectionFound(section) == section # "absent"

\* the activator of activate(): prepare_activator(None)
RestoreActivator(qs) == PrepareActivator(qs, virtio_interrupt, None)

\* restore(snapshot).  section: see Sections; idx: the used index in guest
\* memory; ok: the backing device's activate returns Ok(())
Restore(section, idx, ok) ==
    LET st == SetState(snap.state, idx)
        a == RestoreActivator(st.queues)
        activates == st.res = "ok" /\ st.device_activated /\ IsDriverReady(st.driver_status)
        lockPanics == activates /\ devPoisoned
        unwrapPanics == activates /\ ~devPoisoned /\ (~a.memory \/ a.interrupt = NoIntx)
        calls == activates /\ ~lockPanics /\ ~unwrapPanics
    IN
    /\ snap.taken
    /\ VmmThreadFree
    /\ (section = "good" /\ calls) => activateCalls < MaxActivateCalls
    /\ IF ~SectionFound(section) \/ section = "undecodable"
       THEN /\ rst' = [ret |-> IF ~SectionFound(section) THEN "missing" ELSE "decode",
                       fresh |-> FreshTransport, activates |-> <<>>, waited |-> FALSE]
            /\ UNCHANGED <<xvars, bvars, dvars, tvars, wvars, hvars, op, rd, trig, snap, vm, io, ma>>
       ELSE /\ device_activated' = IF calls THEN ActivatedAfter(ok, st.device_activated)
                                   ELSE st.device_activated
            /\ features_select' = st.features_select
            /\ acked_features_select' = st.acked_features_select
            /\ queue_select' = st.queue_select
            /\ interrupt_status' = st.interrupt_status
            /\ driver_status' = st.driver_status
            /\ queues' = st.queues
            /\ shm_region_select' = st.shm_region_select
            /\ virtio_interrupt' = IF activates THEN InterruptAfterTake(virtio_interrupt)
                                   ELSE virtio_interrupt
            /\ devPoisoned' = (devPoisoned \/ unwrapPanics)
            /\ devInterrupt' = IF ~calls THEN devInterrupt
                               ELSE IF ok THEN a.interrupt ELSE NoIntx
            /\ activateCalls' = IF calls THEN activateCalls + 1 ELSE activateCalls
            /\ lastActivate' = IF ~calls THEN lastActivate
                               ELSE IF ok THEN "ok" ELSE "err"
            /\ rst' = [ret |-> IF st.res = "panic" \/ lockPanics \/ unwrapPanics THEN "panic"
                               ELSE IF st.res = "err" THEN "state"
                               ELSE IF calls /\ ~ok THEN "activate"
                               ELSE "ok",
                       fresh |-> FreshTransport,
                       activates |-> IF calls THEN <<a.queues>> ELSE <<>>,
                       waited |-> (calls /\ StepAfterActivate(ok, a) = "barrier")]
            /\ UNCHANGED <<activate_evt, pending_activations, bvars, resetCalls, lastAck,
                           tvars, wvars, everReady, lastZero, lastReset, completed,
                           op, rd, trig, snap, vm, io, ma>>

\* restore has returned to the VMM thread; a panic does not return
RestoreReturned ==
    /\ rst.ret \notin {"none", "panic"}
    /\ rst' = NoRestore
    /\ UNCHANGED <<xvars, bvars, dvars, tvars, wvars, hvars, op, rd, trig, snap, vm, io, ma>>

\* VirtioMmioDevice::new for the same backing device, pending_activations and
\* activate_evt, once the transport before it is out of use: no access in
\* progress, nothing pending, and the device holds no adapter of it
NewTransport ==
    /\ VmmThreadFree
    /\ pending_activations = <<>>
    /\ trig.pc = "idle"
    /\ ~devPoisoned
    /\ devInterrupt = NoIntx
    /\ ~FreshTransport
    /\ device_activated' = FALSE
    /\ features_select' = 0
    /\ acked_features_select' = 0
    /\ queue_select' = 0
    /\ interrupt_status' = 0
    /\ virtio_interrupt' = Intx
    /\ driver_status' = DEVICE_INIT
    /\ queues' = NewQueues
    /\ shm_region_select' = 0
    /\ UNCHANGED <<activate_evt, pending_activations, bvars, dvars, tvars, wvars, hvars,
                   nvars>>

(***************************************************************************)
(* The Vm's state (vm.rs 288-326) and the operations that move it: each    *)
(* asks valid_transition first and assigns the new state when it said Ok.  *)
(***************************************************************************)
VmStates == {"Created", "Running", "Shutdown", "Paused"}

\* variant: every change of state accepted but one into Created
ValidTransitionUnlessCreated(from, to) ==
    IF to = "Created" \/ to = from THEN "InvalidStateTransition" ELSE "ok"

\* VmState::valid_transition(self, new_state)
ValidTransition(from, to) ==
    CASE from = "Created" ->
             IF to \in {"Created", "Shutdown"} THEN "InvalidStateTransition" ELSE "ok"
      [] from = "Running" ->
             IF to \in {"Created", "Running"} THEN "InvalidStateTransition" ELSE "ok"
      [] from = "Shutdown" ->
             IF to \in {"Paused", "Created", "Shutdown"} THEN "InvalidStateTransition"
             ELSE "ok"
      [] from = "Paused" ->
             IF to \in {"Created", "Paused"} THEN "InvalidStateTransition" ELSE "ok"

\* the states the Vm's operations ask for: boot and resume Running, shutdown
\* Shutdown, pause and restore Paused
RequestedStates == {"Running", "Shutdown", "Paused"}

\* shutdown, boot, pause, resume or restore that fails in nothing but the
\* transition: valid_transition(new_state)?, then *state = new_state
VmTransition(to) ==
    LET ret == ValidTransition(vm.state, to)
    IN  /\ VmmThreadFree
        /\ vm' = [state |-> IF ret = "ok" THEN to ELSE vm.state,
                  from |-> vm.state, to |-> to, ret |-> ret, op |-> "none"]
        /\ UNCHANGED <<xvars, bvars, dvars, tvars, wvars, hvars, op, rd, trig, snap, rst, io, ma>>

\* valid_transition asked on its own, as test_vm_state_transitions does for
\* every state
VmValidTransitionOnly(to) ==
    /\ vm' = [vm EXCEPT !.from = vm.state, !.to = to,
                        !.ret = ValidTransition(vm.state, to)]
    /\ UNCHANGED <<xvars, bvars, dvars, tvars, wvars, hvars, op, rd, trig, snap, rst, io, ma>>

\* Vm::snapshot, which asks for a Paused Vm
VmSnapshot ==
    /\ vm.state = "Paused"
    /\ SnapshotTransport

\* the state each operation asks valid_transition for
TargetState(name) ==
    CASE name = "pause" -> "Paused"
      [] name = "resume" -> "Running"
      [] name = "shutdown" -> "Shutdown"
      [] name = "boot" -> "Running"
      [] name = "restore" -> "Paused"

VmOperations == {"pause", "resume", "shutdown", "boot", "restore"}

\* variant: the new state assigned right after the check
VmAfterStateFirst(name, stepsOk) ==
    LET to == TargetState(name)
        ret == ValidTransition(vm.state, to)
    IN  [state |-> IF ret = "ok" THEN to ELSE vm.state,
         from |-> vm.state, to |-> to,
         ret |-> IF ret # "ok" THEN ret ELSE IF stepsOk THEN "ok" ELSE "StepFailed",
         op |-> name]

\* the Vm after an operation: valid_transition(new_state)?, the steps on the
\* CPU, memory and device managers (each left with `?` on an error), and
\* *state = new_state as the last assignment.  stepsOk: every such step
\* returned Ok
VmAfter(name, stepsOk) ==
    LET to == TargetState(name)
        ret == ValidTransition(vm.state, to)
    IN  [state |-> IF ret = "ok" /\ stepsOk THEN to ELSE vm.state,
         from |-> vm.state, to |-> to,
         ret |-> IF ret # "ok" THEN ret ELSE IF stepsOk THEN "ok" ELSE "StepFailed",
         op |-> name]

VmOperationReturns(after) ==
    /\ VmmThreadFree
    /\ vm' = after
    /\ UNCHANGED <<xvars, bvars, dvars, tvars, wvars, hvars, op, rd, trig, snap, rst, io, ma>>

\* Pausable::pause for Vm
VmPause(stepsOk) == VmOperationReturns(VmAfter("pause", stepsOk))

\* Pausable::resume for Vm
VmResume(stepsOk) == VmOperationReturns(VmAfter("resume", stepsOk))

\* Vm::shutdown
VmShutdown(stepsOk) == VmOperationReturns(VmAfter("shutdown", stepsOk))

\* Vm::boot: a Paused Vm is resumed, the result of resume returned
VmBoot(stepsOk) ==
    VmOperationReturns(IF vm.state = "Paused"
                       THEN [VmAfter("resume", stepsOk) EXCEPT !.op = "boot"]
                       ELSE VmAfter("boot", stepsOk))

\* Snapshottable::restore for Vm
VmRestore(stepsOk) == VmOperationReturns(VmAfter("restore", stepsOk))

\* variant: the test the error message words, refusing a running Vm only
SnapshotAllowedUnlessRunning(state) == state # "Running"

\* Vm::snapshot's test of the state it got from get_state
SnapshotAllowed(state) == state = "Paused"

\* Vm::snapshot called in any state.  componentsOk: the hypervisor's state
\* and every manager's snapshot returned Ok
VmSnapshotCall(componentsOk) ==
    LET after(ret) == [state |-> vm.state, from |-> vm.state, to |-> vm.state,
                       ret |-> ret, op |-> "snapshot"]
    IN  IF SnapshotAllowed(vm.state) /\ componentsOk
        THEN SnapshotTransportBy(after("ok"))
        ELSE VmOperationReturns(after(IF SnapshotAllowed(vm.state) THEN "StepFailed"
                                      ELSE "SnapshotError"))

(***************************************************************************)
(* VirtioTransport::ioeventfds (mmio.rs 353-361), called by the VMM to     *)
(* register each queue event at the notify register.  A 64-bit address is  *)
(* kept as four 16-bit limbs, U64(U32(..), U32(..)).                       *)
(***************************************************************************)
\* queue_evts: one event per declared queue size, built by new and never
\* assigned again
queue_evts == [i \in 1 .. Len(QueueMaxSizes) |-> QueueEvt(i - 1)]

\* base + n for a 64-bit base and n below 2^16, the carry taken through the
\* limbs (and out of the top one, as the release build wraps)
AddOffset64(base, n) ==
    LET l0 == base.lo.lo16 + n
        l1 == base.lo.hi16 + (l0 \div 65536)
        l2 == base.hi.lo16 + (l1 \div 65536)
        l3 == base.hi.hi16 + (l2 \div 65536)
    IN  U64([hi16 |-> l3 % 65536, lo16 |-> l2 % 65536],
            [hi16 |-> l1 % 65536, lo16 |-> l0 % 65536])

\* variant: the events registered at the base of the window
NotifyBaseIsBase(base) == base

\* notify_base = base_addr + u64::from(NOTIFY_REG_OFFSET)
NotifyBase(base) == AddOffset64(base, NOTIFY_REG_OFFSET)

\* ioeventfds(base_addr): (event, notify_base) for every event of queue_evts
Ioeventfds(base) ==
    [i \in 1 .. Len(queue_evts) |-> [event |-> queue_evts[i], addr |-> NotifyBase(base)]]

IoeventfdsCall(base) ==
    /\ ~io.called
    /\ TransportFree
    /\ io' = [called |-> TRUE, base |-> base, ret |-> Ioeventfds(base)]
    /\ UNCHANGED <<xvars, bvars, dvars, tvars, wvars, hvars, op, rd, trig, snap, rst, vm, ma>>

IoeventfdsReturned ==
    /\ io.called
    /\ io' = NoIoeventfds
    /\ UNCHANGED <<xvars, bvars, dvars, tvars, wvars, hvars, op, rd, trig, snap, rst, vm, ma>>

(***************************************************************************)
(* assign_interrupt and maybe_activate (mmio.rs 296-346), called by the    *)
(* VMM on the transport: maybe_activate activates the device in the        *)
(* calling thread and then waits on the transport's activate_barrier.      *)
(***************************************************************************)
\* the thread that calls maybe_activate
Vmm == "vmm"

\* assign_interrupt(interrupt): a new adapter bound to interrupt_status
AssignInterrupt ==
    /\ TransportFree
    /\ virtio_interrupt' = Intx
    /\ UNCHANGED <<device_activated, features_select, acked_features_select, queue_select,
                   interrupt_status, driver_status, queues, shm_region_select,
                   activate_evt, pending_activations, bvars, dvars, tvars, wvars, hvars,
                   nvars>>

\* maybe_activate up to the wait: needs_activation, prepare_activator(None),
\* Activator::activate, expect, and the store.  ok: the backing device's
\* activate returns Ok(())
MaybeActivate(ok) ==
    LET needed == NeedsActivation(device_activated, driver_status)
        a == PrepareActivator(queues, virtio_interrupt, None)
        calls == ~devPoisoned /\ a.interrupt # NoIntx
    IN
    /\ ma.pc = "idle"
    /\ TransportFree
    /\ IF ~needed
       THEN /\ ma' = [pc |-> "return", needed |-> FALSE]
            /\ UNCHANGED <<xvars, bvars, dvars, tvars, wvars, hvars,
                           op, rd, trig, snap, rst, vm, io>>
       ELSE /\ calls => activateCalls < MaxActivateCalls
            /\ virtio_interrupt' = InterruptAfterTake(virtio_interrupt)
            \* unwrap() of the absent adapter panics while the device's mutex
            \* is held; expect panics on an error of activate
            /\ devPoisoned' = (devPoisoned \/ a.interrupt = NoIntx)
            /\ activateCalls' = IF calls THEN activateCalls + 1 ELSE activateCalls
            /\ devInterrupt' = IF ~calls THEN devInterrupt
                               ELSE IF ok THEN a.interrupt ELSE NoIntx
            /\ lastActivate' = IF ~calls THEN lastActivate
                               ELSE IF ok THEN "ok" ELSE "err"
            /\ device_activated' = IF calls THEN ActivatedAfter(ok, device_activated)
                                   ELSE device_activated
            /\ ma' = [pc |-> IF calls /\ ok THEN "barrier" ELSE "panicked",
                      needed |-> TRUE]
            /\ UNCHANGED <<features_select, acked_features_select, queue_select,
                           interrupt_status, driver_status, queues, shm_region_select,
                           activate_evt, pending_activations, bvars, resetCalls, lastAck,
                           tvars, wvars, everReady, lastZero, lastReset, completed,
                           op, rd, trig, snap, rst, vm, io>>

\* self.activate_barrier.wait(): the caller arrives at the barrier, and
\* leaves it once both parties of Barrier::new(2) have arrived
MaybeActivateBarrierWait ==
    /\ ma.pc \in {"barrier", "in_barrier"}
    /\ IF ma.pc = "barrier"
       THEN /\ arrived' = [arrived EXCEPT ![ActivateBarrier] = @ \cup {Vmm}]
            /\ ma' = [ma EXCEPT !.pc = "in_barrier"]
       ELSE /\ BarrierTripped(ActivateBarrier)
            /\ ma' = [ma EXCEPT !.pc = "return"]
            /\ UNCHANGED arrived
    /\ UNCHANGED <<xvars, nextBarrier, dvars, tvars, wvars, hvars,
                   op, rd, trig, snap, rst, vm, io>>

\* maybe_activate has returned to its caller
MaybeActivateReturned ==
    /\ ma.pc = "return"
    /\ ma' = NoMaybeActivate
    /\ UNCHANGED <<xvars, bvars, dvars, tvars, wvars, hvars, op, rd, trig, snap, rst, vm, io>>

(***************************************************************************)
(* The system: a freshly constructed transport (VirtioMmioDevice::new),    *)
(* the dispatchers and the worker.                                         *)
(***************************************************************************)
Init ==
    /\ device_activated = FALSE
    /\ features_select = 0
    /\ acked_features_select = 0
    /\ queue_select = 0
    /\ interrupt_status = 0
    /\ virtio_interrupt = Intx
    /\ driver_status = DEVICE_INIT
    /\ queues = NewQueues
    /\ shm_region_select = 0
    /\ activate_evt = 0
    /\ pending_activations = <<>>
    /\ arrived = [b \in 0 .. (MaxBarriers + 1) |-> {}]
    /\ nextBarrier = 1
    /\ devInterrupt = NoIntx
    /\ devPoisoned = FALSE
    /\ activateCalls = 0
    /\ resetCalls = 0
    /\ lastAck = NoAck
    /\ pc = [d \in Dispatchers |-> "idle"]
    /\ held = [d \in Dispatchers |-> None]
    /\ wpc = "idle"
    /\ draining = <<>>
    /\ act = NoAct
    /\ workerErr = FALSE
    /\ everReady = FALSE
    /\ lastReset = "no"
    /\ lastZero = FALSE
    /\ lastActivate = "none"
    /\ completed = {}
    /\ op = NoOp
    /\ rd = NoRead
    /\ trig = NoTrigger
    /\ snap = NoSnapshot
    /\ rst = NoRestore
    /\ vm = NewVm
    /\ io = NoIoeventfds
    /\ ma = NoMaybeActivate

\* the guest's writes, <<offset, width, value>>: the status register, the
\* queue selector, the ready and size registers of the selected queue, and
\* writes the decoder ignores
WriteInputs ==
    {<<112, 4, 0>>, <<112, 4, 15>>, <<48, 4, 1>>, <<68, 4, 1>>, <<56, 4, 1>>,
     <<80, 4, 0>>}

Write(d) ==
    /\ \E w \in WriteInputs : WriteDecode(d, w[1], w[2], w[3])
    /\ UNCHANGED nvars

Next ==
    \/ \E d \in Dispatchers : Write(d)
    \/ \E d \in Dispatchers : \E someReset \in BOOLEAN : WriteResetCheck(d, someReset)
    \/ \E d \in Dispatchers : DispatcherBarrierWait(d)
    \/ \E d \in Dispatchers : DispatcherBarrierReleased(d)
    \/ WorkerDrain
    \/ \E ok \in BOOLEAN : ActivatorActivate(ok)
    \/ ActivatorBarrierWait
    \/ ActivatorBarrierReleased
    \/ WorkerActivatorReturned

Spec == Init /\ [][Next]_vars

(***************************************************************************)
(* The same system with one dispatcher and the guest writing every kind of *)
(* register: each offset the decoder knows, offsets it does not know, the  *)
(* config window, offsets past the page, and widths other than 4.          *)
(***************************************************************************)
StatusValues == {0, 1, 15, 31, 143}

WriteInputsSeq ==
    {<<112, 4, v>> : v \in StatusValues}
    \cup {<<48, 4, v>> : v \in {0, 1, 2}}
    \cup {<<68, 4, v>> : v \in {0, 1}}
    \cup {<<56, 4, 3>>, <<132, 4, 1>>, <<32, 4, 1>>,
          <<80, 4, 15>>, <<112, 2, 15>>, <<56, 2, 1>>, <<256, 1, 15>>, <<4096, 4, 15>>}

WriteSeq(d) ==
    /\ \E w \in WriteInputsSeq : WriteDecode(d, w[1], w[2], w[3])
    /\ UNCHANGED nvars

NextSeq ==
    \/ WriteSeq("vcpu0")
    \/ \E someReset \in BOOLEAN : WriteResetCheck("vcpu0", someReset)
    \/ DispatcherBarrierWait("vcpu0")
    \/ DispatcherBarrierReleased("vcpu0")
    \/ WorkerDrain
    \/ \E ok \in BOOLEAN : ActivatorActivate(ok)
    \/ ActivatorBarrierWait
    \/ ActivatorBarrierReleased
    \/ WorkerActivatorReturned

SpecSeq == Init /\ [][NextSeq]_vars

(***************************************************************************)
(* The hand-off with a backing device whose activate always succeeds, and  *)
(* with threads that keep running: the worker is scheduled whenever it can *)
(* take a step, and a dispatcher finishes the write it is in and the wait  *)
(* on a barrier it was handed.                                             *)
(***************************************************************************)
NextOk ==
    \/ \E d \in Dispatchers : Write(d)
    \/ \E d \in Dispatchers : \E someReset \in BOOLEAN : WriteResetCheck(d, someReset)
    \/ \E d \in Dispatchers : DispatcherBarrierWait(d)
    \/ \E d \in Dispatchers : DispatcherBarrierReleased(d)
    \/ WorkerDrain
    \/ ActivatorActivate(TRUE)
    \/ ActivatorBarrierWait
    \/ ActivatorBarrierReleased
    \/ WorkerActivatorReturned

Fairness ==
    /\ WF_vars(WorkerDrain)
    /\ WF_vars(ActivatorActivate(TRUE))
    /\ WF_vars(ActivatorBarrierWait)
    /\ WF_vars(ActivatorBarrierReleased)
    /\ WF_vars(WorkerActivatorReturned)
    /\ \A d \in Dispatchers :
         /\ WF_vars(\E someReset \in BOOLEAN : WriteResetCheck(d, someReset))
         /\ WF_vars(DispatcherBarrierWait(d))
         /\ WF_vars(DispatcherBarrierReleased(d))

FairSpec == Init /\ [][NextOk]_vars /\ Fairness

(***************************************************************************)
(* A write with its inputs recorded.                                       *)
(***************************************************************************)
WriteLogged(d, w) ==
    /\ WriteDecode(d, w[1], w[2], w[3])
    /\ op' = [by |-> d, offset |-> w[1], len |-> w[2], v |-> w[3]]
    /\ UNCHANGED <<rd, trig, snap, rst, vm, io, ma>>

\* the four bytes a read buffer holds before the read
BufferBefore == U32(23130)

(***************************************************************************)
(* Migration: one dispatcher, the worker, the backing device's interrupts, *)
(* and a VMM thread that snapshots the paused transport and restores a     *)
(* snapshot into the transport in use or into a newly built one.           *)
(***************************************************************************)
\* status writes, queue 0 made ready, and its used ring moved past the end
\* of guest memory
WriteInputsMig == {<<112, 4, 0>>, <<112, 4, 15>>, <<68, 4, 1>>, <<164, 4, 1>>}

ReadInputsMig == {<<96, 4>>, <<20, 4>>}

TriggerKindsMig == {ConfigKind}

\* the used index guest memory holds
UsedIdxValues == {3}

WriteMig(d) ==
    /\ \E w \in WriteInputsMig : WriteDecode(d, w[1], w[2], w[3])
    /\ UNCHANGED nvars

ReadMig(d) == \E r \in ReadInputsMig : Read(d, r[1], r[2], BufferBefore)

NextMig ==
    \/ WriteMig("vcpu0")
    \/ \E someReset \in BOOLEAN : WriteResetCheck("vcpu0", someReset)
    \/ DispatcherBarrierWait("vcpu0")
    \/ DispatcherBarrierReleased("vcpu0")
    \/ ReadMig("vcpu0")
    \/ ReadReturned("vcpu0")
    \/ WorkerDrain
    \/ \E ok \in BOOLEAN : ActivatorActivate(ok)
    \/ ActivatorBarrierWait
    \/ ActivatorBarrierReleased
    \/ WorkerActivatorReturned
    \/ \E kind \in TriggerKindsMig : TriggerFetchOr(kind)
    \/ \E sinkOk \in BOOLEAN : TriggerSink(sinkOk)
    \/ TriggerReturned
    \/ SnapshotTransport
    \/ \E section \in Sections, idx \in UsedIdxValues, ok \in BOOLEAN :
           Restore(section, idx, ok)
    \/ RestoreReturned
    \/ NewTransport

SpecMig == Init /\ [][NextMig]_vars

(***************************************************************************)
(* The interrupt status across the transport's life: both interrupt types, *)
(* acknowledgements, resets, snapshots and restores.                       *)
(***************************************************************************)
\* status writes, and acknowledgements of one bit and of bits 1 and 2 with
\* a bit no interrupt type has
WriteInputsIrq == {<<112, 4, 0>>, <<112, 4, 15>>, <<100, 4, 1>>, <<100, 4, 6>>}

TriggerKindsIrq == {ConfigKind, QueueKind(3)}

WriteIrq(d) ==
    /\ \E w \in WriteInputsIrq : WriteDecode(d, w[1], w[2], w[3])
    /\ UNCHANGED nvars

ReadIrq(d) == Read(d, 96, 4, BufferBefore)

NextIrq ==
    \/ WriteIrq("vcpu0")
    \/ \E someReset \in BOOLEAN : WriteResetCheck("vcpu0", someReset)
    \/ DispatcherBarrierWait("vcpu0")
    \/ DispatcherBarrierReleased("vcpu0")
    \/ ReadIrq("vcpu0")
    \/ ReadReturned("vcpu0")
    \/ WorkerDrain
    \/ \E ok \in BOOLEAN : ActivatorActivate(ok)
    \/ ActivatorBarrierWait
    \/ ActivatorBarrierReleased
    \/ WorkerActivatorReturned
    \/ \E kind \in TriggerKindsIrq : TriggerFetchOr(kind)
    \/ \E sinkOk \in BOOLEAN : TriggerSink(sinkOk)
    \/ TriggerReturned
    \/ SnapshotTransport
    \/ \E section \in Sections, idx \in UsedIdxValues, ok \in BOOLEAN :
           Restore(section, idx, ok)
    \/ RestoreReturned
    \/ NewTransport

SpecIrq == Init /\ [][NextIrq]_vars

(***************************************************************************)
(* The register file: one dispatcher reading and writing registers with    *)
(* the accesses recorded, the worker, and the backing device triggering    *)
(* interrupts on the adapter it was handed.                                *)
(***************************************************************************)
\* the status register, the acknowledged-features selector and register, and
\* the interrupt acknowledge register
WriteInputsRegs ==
    {<<112, 4, 0>>, <<112, 4, 15>>, <<32, 4, 9>>, <<100, 4, 1>>, <<100, 4, 2>>}
    \cup {<<36, 4, v>> : v \in {0, 1, 2}}

\* registers read knows (magic, interrupt status), write-only registers,
\* offsets no register lives at, and a width other than 4
ReadInputsRegs == {<<0, 4>>, <<96, 4>>, <<20, 4>>, <<100, 4>>, <<1, 4>>, <<200, 4>>, <<96, 2>>}

TriggerKinds == {ConfigKind, QueueKind(3), QueueKind(5)}

WriteRegs(d) == \E w \in WriteInputsRegs : WriteLogged(d, w)

ReadRegister4(d) == \E r \in ReadInputsRegs : Read(d, r[1], r[2], BufferBefore)

NextRegs ==
    \/ WriteRegs("vcpu0")
    \/ \E someReset \in BOOLEAN : WriteResetCheck("vcpu0", someReset)
    \/ DispatcherBarrierWait("vcpu0")
    \/ DispatcherBarrierReleased("vcpu0")
    \/ ReadRegister4("vcpu0")
    \/ ReadReturned("vcpu0")
    \/ WorkerDrain
    \/ \E ok \in BOOLEAN : ActivatorActivate(ok)
    \/ ActivatorBarrierWait
    \/ ActivatorBarrierReleased
    \/ WorkerActivatorReturned
    \/ \E kind \in TriggerKinds : TriggerFetchOr(kind)
    \/ \E sinkOk \in BOOLEAN : TriggerSink(sinkOk)
    \/ TriggerReturned

SpecRegs == Init /\ [][NextRegs]_vars

(***************************************************************************)
(* Two dispatchers whose writes are recorded: the status register written  *)
(* with 4 bytes, and control-window registers written with another width.  *)
(***************************************************************************)
WriteInputsWidth == {<<112, 4, 0>>, <<112, 4, 15>>, <<56, 2, 1>>, <<112, 1, 15>>}

WriteWidth(d) == \E w \in WriteInputsWidth : WriteLogged(d, w)

NextWidth ==
    \/ \E d \in Dispatchers : WriteWidth(d)
    \/ \E d \in Dispatchers : \E someReset \in BOOLEAN : WriteResetCheck(d, someReset)
    \/ \E d \in Dispatchers : DispatcherBarrierWait(d)
    \/ \E d \in Dispatchers : DispatcherBarrierReleased(d)
    \/ WorkerDrain
    \/ \E ok \in BOOLEAN : ActivatorActivate(ok)
    \/ ActivatorBarrierWait
    \/ ActivatorBarrierReleased
    \/ WorkerActivatorReturned

SpecWidth == Init /\ [][NextWidth]_vars

(***************************************************************************)
(* The queue registers: one dispatcher that moves the queue selector over  *)
(* the queues and past them, writes each of the eight registers of the     *)
(* selected queue and reads its QueueNumMax.                               *)
(***************************************************************************)
\* selectors of the two queues and of the first index past them
QueueSelectValues == {0, 1, NumQueues}

\* a value for each register of the selected queue that the queue accepts
\* and that differs from what a new queue holds
QueueRegWrites ==
    {<<56, 4, 1>>, <<68, 4, 1>>, <<128, 4, 16>>, <<132, 4, 1>>, <<144, 4, 2>>,
     <<148, 4, 1>>, <<160, 4, 4>>, <<164, 4, 1>>}

WriteInputsQueue == {<<48, 4, v>> : v \in QueueSelectValues} \cup QueueRegWrites

WriteQueue(d) ==
    /\ \E w \in WriteInputsQueue : WriteDecode(d, w[1], w[2], w[3])
    /\ UNCHANGED nvars

ReadQueueNumMax(d) == Read(d, 52, 4, BufferBefore)

NextQueue ==
    \/ WriteQueue("vcpu0")
    \/ \E someReset \in BOOLEAN : WriteResetCheck("vcpu0", someReset)
    \/ ReadQueueNumMax("vcpu0")
    \/ ReadReturned("vcpu0")

SpecQueue == Init /\ [][NextQueue]_vars

(***************************************************************************)
(* The feature and shared-memory selectors: one dispatcher that writes     *)
(* them, in range and out of range, and reads the feature page and the     *)
(* four shared-memory registers of a backing device that has no shared     *)
(* memory, one region, or two.                                             *)
(***************************************************************************)
FeaturesSelectValues == {0, 1, 2, 2147483647}

ShmSelectValues == {0, 1, 2, 3}

TwoShmRegions ==
    [present |-> TRUE, addr |-> 4096,
     region_list |-> <<[offset |-> 8192, len |-> U64(1, 16384)],
                       [offset |-> 32768, len |-> U64(0, 4096)]>>]

DeviceShmValues == {NoShmRegions, DeviceShmRegions, TwoShmRegions}

WriteInputsSel ==
    {<<20, 4, v>> : v \in FeaturesSelectValues} \cup {<<172, 4, v>> : v \in ShmSelectValues}

WriteSel(d) ==
    /\ \E w \in WriteInputsSel : WriteDecode(d, w[1], w[2], w[3])
    /\ UNCHANGED nvars

ReadFeatures(d) == Read(d, 16, 4, BufferBefore)

ReadShmRegister(d) ==
    \E offset \in {176, 180, 184, 188}, shm \in DeviceShmValues :
        ReadShm(d, offset, 4, BufferBefore, shm)

NextSel ==
    \/ WriteSel("vcpu0")
    \/ \E someReset \in BOOLEAN : WriteResetCheck("vcpu0", someReset)
    \/ ReadFeatures("vcpu0")
    \/ ReadShmRegister("vcpu0")
    \/ ReadReturned("vcpu0")

SpecSel == Init /\ [][NextSel]_vars

(***************************************************************************)
(* The queue events over the life of a transport: one dispatcher that      *)
(* makes a queue ready, activates and resets the device, the worker, a     *)
(* VMM thread that snapshots, restores and rebuilds the transport and asks *)
(* for its ioeventfds at any of these points.                              *)
(***************************************************************************)
\* bases of the 4 KiB window: 0, one whose sum carries into the second limb,
\* one whose sum carries into the high word, and one in the high half
IoBases ==
    {U64(U32(0), U32(0)),
     U64(U32(0), [hi16 |-> 2560, lo16 |-> 65520]),
     U64(U32(0), [hi16 |-> 65535, lo16 |-> 61440]),
     U64([hi16 |-> 32768, lo16 |-> 1], [hi16 |-> 65535, lo16 |-> 65456])}

WriteInputsIo == {<<112, 4, 0>>, <<112, 4, 15>>, <<68, 4, 1>>}

WriteIo(d) ==
    /\ \E w \in WriteInputsIo : WriteDecode(d, w[1], w[2], w[3])
    /\ UNCHANGED nvars

NextIo ==
    \/ WriteIo("vcpu0")
    \/ \E someReset \in BOOLEAN : WriteResetCheck("vcpu0", someReset)
    \/ DispatcherBarrierWait("vcpu0")
    \/ DispatcherBarrierReleased("vcpu0")
    \/ WorkerDrain
    \/ \E ok \in BOOLEAN : ActivatorActivate(ok)
    \/ ActivatorBarrierWait
    \/ ActivatorBarrierReleased
    \/ WorkerActivatorReturned
    \/ SnapshotTransport
    \/ \E section \in Sections, idx \in UsedIdxValues, ok \in BOOLEAN :
           Restore(section, idx, ok)
    \/ RestoreReturned
    \/ NewTransport
    \/ \E base \in IoBases : IoeventfdsCall(base)
    \/ IoeventfdsReturned

SpecIo == Init /\ [][NextIo]_vars

(***************************************************************************)
(* The Vm over its states: the VMM thread boots, pauses, resumes and shuts *)
(* it down and snapshots it, and a vCPU of the running Vm activates and    *)
(* resets the device.                                                      *)
(***************************************************************************)
WriteInputsVm == {<<112, 4, 0>>, <<112, 4, 15>>}

\* the vCPUs run the guest while the Vm is Running
WriteVm(d) ==
    /\ vm.state = "Running"
    /\ \E w \in WriteInputsVm : WriteDecode(d, w[1], w[2], w[3])
    /\ UNCHANGED nvars

NextVm ==
    \/ \E to \in RequestedStates : VmTransition(to)
    \/ \E to \in VmStates : VmValidTransitionOnly(to)
    \/ VmSnapshot
    \/ WriteVm("vcpu0")
    \/ \E someReset \in BOOLEAN : WriteResetCheck("vcpu0", someReset)
    \/ DispatcherBarrierWait("vcpu0")
    \/ DispatcherBarrierReleased("vcpu0")
    \/ WorkerDrain
    \/ \E ok \in BOOLEAN : ActivatorActivate(ok)
    \/ ActivatorBarrierWait
    \/ ActivatorBarrierReleased
    \/ WorkerActivatorReturned

SpecVm == Init /\ [][NextVm]_vars

(***************************************************************************)
(* The Vm's operations one by one, each with the steps after its check     *)
(* succeeding or failing, and a vCPU of the running Vm.                    *)
(***************************************************************************)
NextVmOps ==
    \/ \E stepsOk \in BOOLEAN : VmPause(stepsOk)
    \/ \E stepsOk \in BOOLEAN : VmResume(stepsOk)
    \/ \E stepsOk \in BOOLEAN : VmShutdown(stepsOk)
    \/ \E stepsOk \in BOOLEAN : VmBoot(stepsOk)
    \/ \E stepsOk \in BOOLEAN : VmRestore(stepsOk)
    \/ \E componentsOk \in BOOLEAN : VmSnapshotCall(componentsOk)
    \/ WriteVm("vcpu0")
    \/ \E someReset \in BOOLEAN : WriteResetCheck("vcpu0", someReset)
    \/ DispatcherBarrierWait("vcpu0")
    \/ DispatcherBarrierReleased("vcpu0")
    \/ WorkerDrain
    \/ \E ok \in BOOLEAN : ActivatorActivate(ok)
    \/ ActivatorBarrierWait
    \/ ActivatorBarrierReleased
    \/ WorkerActivatorReturned

SpecVmOps == Init /\ [][NextVmOps]_vars

(***************************************************************************)
(* The queue cursors across restore: the guest selects a queue, moves its   *)
(* used ring and makes it ready, the VMM thread snapshots and restores      *)
(* with guest memory holding one set of used indexes or another.            *)
(***************************************************************************)
\* queue_select 0 and 1; the used ring low word moved from 0 to 4 (aligned)
\* and to 2 (rejected by try_set_used_ring_address); the high word past the
\* end of guest memory; queue_ready
WriteInputsCursor ==
    {<<48, 4, 0>>, <<48, 4, 1>>, <<160, 4, 4>>, <<160, 4, 2>>, <<164, 4, 1>>,
     <<68, 4, 1>>}

\* two guest memories
UsedIdxValuesCursor == {3, 65535}

WriteCursor(d) ==
    /\ \E w \in WriteInputsCursor : WriteDecode(d, w[1], w[2], w[3])
    /\ UNCHANGED nvars

NextCursor ==
    \/ WriteCursor("vcpu0")
    \/ \E someReset \in BOOLEAN : WriteResetCheck("vcpu0", someReset)
    \/ SnapshotTransport
    \/ \E section \in Sections, idx \in UsedIdxValuesCursor, ok \in BOOLEAN :
           Restore(section, idx, ok)
    \/ RestoreReturned
    \/ NewTransport

SpecCursor == Init /\ [][NextCursor]_vars

(***************************************************************************)
(* The status register: the dispatchers write it with values of every kind *)
(* in any order and read it back, the worker, and a backing device         *)
(* whose reset gives the adapter back or does not.                          *)
(***************************************************************************)
\* 0, single bits, the ready bits, the ready bits with FAILED, bits no status
\* has, and the largest value below 2^31
StatusValuesMirror == {0, 1, 15, 143, 256, 2147483647}

WriteInputsStatus == {<<112, 4, v>> : v \in StatusValuesMirror}

WriteStatus(d) == \E w \in WriteInputsStatus : WriteLogged(d, w)

ReadStatus(d) == Read(d, 112, 4, BufferBefore)

NextStatus ==
    \/ \E d \in Dispatchers : WriteStatus(d)
    \/ \E d \in Dispatchers : \E someReset \in BOOLEAN : WriteResetCheck(d, someReset)
    \/ \E d \in Dispatchers : DispatcherBarrierWait(d)
    \/ \E d \in Dispatchers : DispatcherBarrierReleased(d)
    \/ \E d \in Dispatchers : ReadStatus(d)
    \/ \E d \in Dispatchers : ReadReturned(d)
    \/ WorkerDrain
    \/ \E ok \in BOOLEAN : ActivatorActivate(ok)
    \/ ActivatorBarrierWait
    \/ ActivatorBarrierReleased
    \/ WorkerActivatorReturned

SpecStatus == Init /\ [][NextStatus]_vars

(***************************************************************************)
(* maybe_activate: a dispatcher and the worker take the device through    *)
(* activations that succeed or fail and through resets, and the VMM thread *)
(* installs an adapter and calls maybe_activate at any point at which the  *)
(* transport is free.  The VMM thread keeps running: it finishes the call  *)
(* it is in whenever it can take a step.                                   *)
(***************************************************************************)
NextMaybe ==
    \/ WriteIo("vcpu0")
    \/ \E someReset \in BOOLEAN : WriteResetCheck("vcpu0", someReset)
    \/ DispatcherBarrierWait("vcpu0")
    \/ DispatcherBarrierReleased("vcpu0")
    \/ WorkerDrain
    \/ \E ok \in BOOLEAN : ActivatorActivate(ok)
    \/ ActivatorBarrierWait
    \/ ActivatorBarrierReleased
    \/ WorkerActivatorReturned
    \/ AssignInterrupt
    \/ \E ok \in BOOLEAN : MaybeActivate(ok)
    \/ MaybeActivateBarrierWait
    \/ MaybeActivateReturned

FairnessMaybe ==
    /\ WF_vars(MaybeActivateBarrierWait)
    /\ WF_vars(MaybeActivateReturned)

FairSpecMaybe == Init /\ [][NextMaybe]_vars /\ FairnessMaybe

TypeOK ==
    /\ device_activated \in BOOLEAN
    /\ virtio_interrupt \in {Intx, NoIntx}
    /\ Len(queues) = NumQueues
    /\ nextBarrier \in 1 .. (MaxBarriers + 1)
    /\ wpc \in {"idle", "activate", "barrier", "in_barrier", "return_ok", "return_err",
                "panicked"}
    /\ \A d \in Dispatchers :
         pc[d] \in {"idle", "reset_check", "returned", "in_barrier", "panicked", "read"}

(***************************************************************************)
(* Properties.                                                             *)
(***************************************************************************)
Last(seq) == seq[Len(seq)]

\* the activator records not yet handed to the backing device
InFlight ==
    {pending_activations[i] : i \in 1 .. Len(pending_activations)}
    \cup {draining[i] : i \in 1 .. Len(draining)}
    \cup (IF wpc = "activate" THEN {act} ELSE {})

\* C1: however the writes of the dispatchers and the worker's drain
\* interleave, the backing device's activate is called at most once before
\* the first successful reset and between two successful resets.
C1_ActivateAtMostOncePerCycle == activateCalls <= 1

\* the device was activated, a second record of the same cycle reached the
\* worker, and the worker stopped on it without a second call
C1_Witness == activateCalls = 1 /\ device_activated /\ wpc = "panicked"

\* C2: a write after which device_activated is false and driver_status is
\* exactly 0x0F pushes exactly one activator, signals activate_evt once and
\* returns a barrier of two parties created for this activation, held by
\* that activator and the returning dispatcher only.
C2_ReadyWritePushesOneActivator ==
    [][\A d \in Dispatchers :
        (/\ pc[d] = "idle"
         /\ pc'[d] \in {"returned", "reset_check"}
         /\ ~device_activated'
         /\ driver_status' = 15)
        => /\ pc'[d] = "returned"
           /\ Len(pending_activations') = Len(pending_activations) + 1
           /\ SubSeq(pending_activations', 1, Len(pending_activations)) = pending_activations
           /\ activate_evt' = activate_evt + 1
           /\ held'[d] # None
           /\ Last(pending_activations').barrier = held'[d]
           /\ held'[d] \notin IssuedBarriers
           /\ arrived'[held'[d]] = {}
           /\ BarrierParties = 2
           /\ \A e \in Dispatchers \ {d} : held'[e] # held'[d]
           /\ \A a \in InFlight \cup {act} : a.barrier # held'[d]
      ]_vars

C2_Witness ==
    \E d \in Dispatchers :
        /\ pc[d] = "returned"
        /\ driver_status = 15
        /\ ~device_activated
        /\ pending_activations # <<>>
        /\ Last(pending_activations).barrier = held[d]
        /\ activate_evt >= 1

\* C3: from a fresh transport, as long as no write has made driver_status
\* exactly 0x0F, device_activated is false, pending_activations is empty and
\* no write has returned a barrier; status values with the ready bits and
\* FAILED or another extra bit do not count as ready.
C3_NoActivationBeforeReady ==
    ~everReady =>
        /\ ~device_activated
        /\ pending_activations = <<>>
        /\ draining = <<>>
        /\ nextBarrier = 1
        /\ activate_evt = 0
        /\ \A d \in Dispatchers : pc[d] \notin {"returned", "in_barrier"} /\ held[d] = None

\* the status holds the ready bits together with FAILED, a queue is ready,
\* and the write has returned
C3_Witness ==
    /\ ~everReady
    /\ driver_status = 143
    /\ \E i \in 1 .. NumQueues : queues[i].ready
    /\ \A d \in Dispatchers : pc[d] = "idle"

\* C4: when the backing device's activate returns an error to an activator
\* that carries a barrier, the activator has waited on that barrier by the
\* time it returns the error, so the dispatcher holding the barrier is
\* released.
C4_BarrierWaitedOnError ==
    (wpc = "return_err" /\ act.barrier # None) => Worker \in arrived[act.barrier]

\* C5: when the backing device's activate returns an error, the activator
\* returns the error to the worker and device_activated is and stays false.
C5_ErrorReturnedAndNotActivated ==
    /\ [](lastActivate = "err" => ~device_activated)
    /\ [][(activateCalls' = activateCalls + 1 /\ lastActivate' = "err")
            => (wpc' = "return_err" /\ ~device_activated')]_vars
    /\ [][(wpc = "return_err" /\ wpc' # "return_err") => workerErr']_vars

\* the error has reached the worker, and a dispatcher still holds the barrier
C5_Witness ==
    /\ lastActivate = "err"
    /\ workerErr
    /\ wpc = "idle"
    /\ ~device_activated
    /\ driver_status = 15

\* C6 as stated: at the moment a dispatcher resumes from the barrier that
\* write returned, device_activated is true.
C6_ActivatedAtResume ==
    [][\A d \in Dispatchers :
        (pc[d] = "in_barrier" /\ pc'[d] = "idle") => device_activated]_vars

\* C6 as amended: at the moment a dispatcher resumes from the barrier that
\* write returned, the backing device's activate for the activator of that
\* barrier has returned Ok and that activator has stored true into
\* device_activated.
C6_ActivationDoneAtResume ==
    [][\A d \in Dispatchers :
        (pc[d] = "in_barrier" /\ pc'[d] = "idle") => held[d] \in completed]_vars

\* a dispatcher about to resume, after another dispatcher's write has reset
\* the device
C6_Witness ==
    \E d \in Dispatchers :
        /\ pc[d] = "in_barrier"
        /\ BarrierTripped(held[d])
        /\ held[d] \in completed
        /\ ~device_activated

\* C7: with a backing device whose activate succeeds and fair threads, every
\* write that returned a barrier is followed by the dispatcher passing it.
C7_HandoffCompletes ==
    \A d \in Dispatchers : (pc[d] = "returned") ~> (pc[d] = "idle")

\* the list of C8, from the queues as they were when the activator was
\* built: the ready queues
ReadyIndexes(qs) == {i \in 1 .. Len(qs) : qs[i].ready}

\* C8: the list an activator hands to the backing device has one entry per
\* queue that was ready when it was built and none for any other queue; each
\* entry is the index, the queue as it was (valid or not) and the event of
\* that index; the entries are in ascending index order.
C8_HandedQueuesAreTheReadyQueues ==
    \A a \in InFlight :
        LET L == a.queues
        IN  /\ {L[k].index + 1 : k \in 1 .. Len(L)} = ReadyIndexes(a.snap)
            /\ Len(L) = Cardinality(ReadyIndexes(a.snap))
            /\ \A k \in 1 .. Len(L) :
                 /\ L[k].queue = a.snap[L[k].index + 1]
                 /\ L[k].evt = QueueEvt(L[k].index)
            /\ \A k, m \in 1 .. Len(L) : k < m => L[k].index < L[m].index

\* the worker is about to hand over a list with a ready queue that is not
\* valid, built while another queue was not ready
C8_Witness ==
    /\ wpc = "activate"
    /\ act.interrupt # NoIntx
    /\ \E k \in 1 .. Len(act.queues) : ~QueueIsValid(act.queues[k].queue)
    /\ \E i \in 1 .. Len(act.snap) : ~act.snap[i].ready

\* C9: a 4-byte write of 0 to the status register of an activated device
\* whose reset returns Some(interrupt) calls reset once, installs the
\* returned adapter, clears device_activated, leaves every queue not ready
\* with size = max_size, zeroes queue_select and returns no barrier.
C9_ResetSome ==
    [][\A d \in Dispatchers :
        (/\ pc[d] = "reset_check" /\ pc'[d] = "idle"
         /\ lastZero /\ device_activated /\ lastReset' = "some")
        => /\ resetCalls' = 1
           /\ virtio_interrupt' = devInterrupt /\ virtio_interrupt' # NoIntx
           /\ ~device_activated'
           /\ \A i \in 1 .. NumQueues :
                ~queues'[i].ready /\ queues'[i].size = queues'[i].max_size
           /\ Len(queues') = NumQueues
           /\ queue_select' = 0
           /\ held'[d] = None
           /\ pending_activations' = pending_activations
      ]_vars

C9_Witness ==
    /\ lastZero /\ lastReset = "some"
    /\ \A d \in Dispatchers : pc[d] = "idle"
    /\ ~device_activated
    /\ virtio_interrupt = Intx
    /\ driver_status = 0

\* C10: a 4-byte write of 0 to the status register of an activated device
\* whose reset returns None sets the FAILED bit of driver_status, leaves
\* device_activated true and the queues, queue_select and the adapter as
\* they were, and returns to the caller without an error.
C10_ResetNone ==
    [][\A d \in Dispatchers :
        (/\ pc[d] = "reset_check" /\ pc'[d] # "reset_check"
         /\ lastZero /\ device_activated /\ lastReset' = "none")
        => /\ BitAnd(driver_status', DEVICE_FAILED) = DEVICE_FAILED
           /\ device_activated'
           /\ queues' = queues
           /\ queue_select' = queue_select
           /\ virtio_interrupt' = virtio_interrupt
           /\ pc'[d] = "idle"
           /\ held'[d] = None
      ]_vars

C10_Witness ==
    /\ lastZero /\ lastReset = "none"
    /\ \A d \in Dispatchers : pc[d] = "idle"
    /\ device_activated
    /\ driver_status = DEVICE_FAILED
    /\ \E i \in 1 .. NumQueues : queues[i].ready

\* a write's reset check that called reset() and got Some(interrupt)
ResetSomeStep ==
    \E d \in Dispatchers :
        /\ pc[d] = "reset_check" /\ pc'[d] = "idle"
        /\ IsDriverInit(driver_status)
        /\ resetCalls' = resetCalls + 1
        /\ lastReset' = "some"

RestoreStep ==
    \E section \in Sections, idx \in UsedIdxValues, ok \in BOOLEAN :
        Restore(section, idx, ok)

\* C11 as stated: the device_activated of a transport changes from true to
\* false only in a write whose reset check called reset() and got Some; no
\* other write, no read, activator run, interrupt trigger, snapshot or
\* restore clears it.
C11_ClearedOnlyByReset ==
    [][(device_activated /\ ~device_activated' /\ ~NewTransport) => ResetSomeStep]_vars

\* C11 as amended: the device_activated of a transport changes from true to
\* false only in a write whose reset check called reset() and got Some, or
\* in a restore of a snapshot whose record holds device_activated = false.
C11_ClearedOnlyByResetOrRestore ==
    [][(device_activated /\ ~device_activated' /\ ~NewTransport)
        => \/ ResetSomeStep
           \/ RestoreStep /\ ~snap.state.device_activated]_vars

\* a restore has cleared the flag of a transport whose backing device is
\* still activated
C11_Witness ==
    /\ rst.ret = "ok"
    /\ ~rst.fresh
    /\ ~device_activated
    /\ ~snap.state.device_activated
    /\ devInterrupt = Intx
    /\ activateCalls = 1

\* C12: in every cycle of configuring, writing 0x0F, activation by the
\* worker and reset by a write of 0, the first as well as any later one, the
\* ready write leaves exactly one activator to be run, holding the interrupt
\* adapter, the memory and a barrier, and the worker's run of it calls the
\* backing device's activate once in that cycle and, when the call
\* succeeds, stores true into device_activated.
C12_EveryCycleActivates ==
    /\ [](\A a \in InFlight : a.interrupt = Intx /\ a.memory /\ a.barrier # None)
    /\ [](Len(pending_activations) + Len(draining)
            + (IF wpc = "activate" THEN 1 ELSE 0) <= 1)
    /\ [][\A d \in Dispatchers :
            (pc[d] = "idle" /\ pc'[d] = "returned")
            => /\ Len(pending_activations') = 1
               /\ Last(pending_activations').interrupt = Intx
               /\ Last(pending_activations').barrier = held'[d]
               /\ held'[d] # None]_vars
    /\ [][(wpc = "activate" /\ wpc' # "activate")
            => /\ activateCalls' = 1
               /\ lastActivate' = "ok" => device_activated']_vars

\* the second cycle has activated the device: two barriers were handed out
\* and passed, and the backing device was activated once since the reset
C12_Witness ==
    /\ nextBarrier = 3
    /\ completed = {1, 2}
    /\ device_activated
    /\ activateCalls = 1
    /\ devInterrupt = Intx
    /\ \A d \in Dispatchers : pc[d] = "idle"

\* the offsets of the register table
TableOffsets ==
    {0, 4, 8, 12, 16, 20, 32, 36, 48, 52, 56, 68, 96, 100, 112, 128, 132, 144, 148,
     160, 164, 172, 252} \cup (176 .. 188)

\* C13: a 4-byte read at a control-window offset that is no register, and
\* likewise at a register that can only be written, leaves the buffer as it
\* was and changes none of driver_status, interrupt_status, the selectors,
\* the queues and device_activated, however many such reads follow each
\* other.
C13_UnknownReadLeavesBufferAndState ==
    [][\A d \in Dispatchers :
        (/\ pc[d] = "idle" /\ pc'[d] = "read"
         /\ rd'.len = 4
         /\ rd'.offset \in 0 .. 255
         /\ rd'.offset \notin TableOffsets \/ rd'.offset \in {20, 100})
        => /\ rd'.after = rd'.before
           /\ UNCHANGED <<driver_status, interrupt_status, features_select,
                          acked_features_select, queue_select, shm_region_select,
                          queues, device_activated>>
      ]_vars

\* an unknown offset was read on an activated device with an interrupt
\* pending, and the buffer holds what it held before
C13_Witness ==
    /\ \E d \in Dispatchers : pc[d] = "read"
    /\ rd.offset = 200 /\ rd.len = 4
    /\ rd.after = BufferBefore
    /\ rd.after # U32(0)
    /\ device_activated
    /\ interrupt_status = 3

\* the write in progress or last made is a control-window write of a width
\* other than 4
MalformedWidth(w) == w.offset \in 0 .. 255 /\ w.len # 4

\* C14: in every reachable state a write to a control-window offset with a
\* width other than 4 changes no selector, no queue, not driver_status,
\* interrupt_status or device_activated, calls neither ack_features nor
\* reset, pushes no activator and returns no barrier.
C14_MalformedWidthIsNoOp ==
    /\ [][\A d \in Dispatchers :
            (/\ pc[d] = "idle" /\ pc'[d] \in {"reset_check", "returned"}
             /\ op'.by = d /\ MalformedWidth(op'))
            => /\ UNCHANGED <<features_select, acked_features_select, queue_select,
                              shm_region_select, queues, driver_status,
                              interrupt_status, device_activated,
                              pending_activations, activate_evt>>
               /\ lastAck' = NoAck
               /\ pc'[d] = "reset_check"
               /\ held'[d] = None]_vars
    /\ [][\A d \in Dispatchers :
            (/\ pc[d] = "reset_check" /\ pc'[d] # "reset_check"
             /\ op.by = d /\ MalformedWidth(op))
            => /\ UNCHANGED <<features_select, acked_features_select, queue_select,
                              shm_region_select, queues, driver_status,
                              interrupt_status, device_activated,
                              pending_activations, activate_evt>>
               /\ resetCalls' = 0
               /\ pc'[d] = "idle"]_vars

\* C15: a 4-byte write to 0x20 made while acked_features_select is 2 or
\* more calls ack_features not at all; made while the selector is 0 or 1 it
\* calls ack_features once, with the written value in the low half of the
\* 64-bit argument for selector 0 and in the high half for selector 1.
C15_AckFeaturesPerPage ==
    [][\A d \in Dispatchers :
        (/\ pc[d] = "idle" /\ pc'[d] \in {"reset_check", "returned"}
         /\ op'.by = d /\ op'.offset = 32 /\ op'.len = 4)
        => IF acked_features_select >= 2 THEN lastAck' = <<>>
           ELSE /\ Len(lastAck') = 1
                /\ acked_features_select = 0 => lastAck'[1] = [hi |-> 0, lo |-> op'.v]
                /\ acked_features_select = 1 => lastAck'[1] = [hi |-> op'.v, lo |-> 0]
      ]_vars

\* the guest has acknowledged the high feature page
C15_Witness ==
    /\ op.offset = 32 /\ op.len = 4
    /\ acked_features_select = 1
    /\ lastAck = <<[hi |-> 9, lo |-> 0]>>

\* C16: trigger(Queue(k)) sets bit 0x1 of interrupt_status and no other bit
\* for every k, trigger(Config) sets bit 0x2 and no other bit, a 4-byte write
\* of v to 0x64 clears exactly the bits set in v, and a 4-byte read of 0x60
\* yields interrupt_status: 3 once a queue and a config interrupt have been
\* triggered, 2 after 1 is then written to 0x64.
C16_InterruptStatusBits ==
    /\ [][\A kind \in TriggerKinds :
            TriggerFetchOr(kind)
            => \A b \in {1, 2, 4, 8, 16, 32} :
                 BitAnd(interrupt_status', b) =
                     IF b = (IF kind.type = "queue" THEN 1 ELSE 2) THEN b
                     ELSE BitAnd(interrupt_status, b)
         ]_vars
    /\ [][\A d \in Dispatchers :
            (/\ pc[d] = "idle" /\ pc'[d] \in {"reset_check", "returned"}
             /\ op'.by = d /\ op'.offset = 100 /\ op'.len = 4)
            => \A b \in {1, 2, 4, 8, 16, 32} :
                 BitAnd(interrupt_status', b) =
                     IF BitAnd(op'.v, b) = b THEN 0 ELSE BitAnd(interrupt_status, b)
         ]_vars
    /\ [][\A d \in Dispatchers :
            (pc[d] = "idle" /\ pc'[d] = "read" /\ rd'.offset = 96 /\ rd'.len = 4)
            => /\ rd'.after = [hi16 |-> 0, lo16 |-> interrupt_status]
               /\ interrupt_status' = interrupt_status
         ]_vars

\* both bits were raised, the guest acknowledged bit 0x1 and reads 2 at 0x60
C16_Witness ==
    /\ op.offset = 100 /\ op.len = 4 /\ op.v = 1
    /\ rd.offset = 96 /\ rd.len = 4
    /\ rd.after = [hi16 |-> 0, lo16 |-> 2]
    /\ interrupt_status = 2

\* C17: trigger(kind) invokes the interrupt sink exactly once, on vector 0,
\* and returns an error exactly when the sink returned one.
C17_SinkOnceOnVectorZero ==
    /\ [](trig.pc = "return"
           => /\ trig.fired = <<0>>
              /\ trig.ret = trig.sink
              /\ trig.sink \in {"ok", "err"})
    /\ [](trig.pc \in {"idle", "sink"} => trig.fired = <<>>)
    /\ [][trig.pc = "return" => trig' = NoTrigger]_trig

\* a queue interrupt whose sink failed, the error handed to the caller
C17_Witness ==
    /\ trig.pc = "return"
    /\ trig.kind = QueueKind(5)
    /\ trig.fired = <<0>>
    /\ trig.sink = "err" /\ trig.ret = "err"

\* C18: a restore of a paused transport's snapshot into a fresh transport of
\* the same backing device that returns Ok leaves a transport whose state
\* record, the one a snapshot of it holds, equals the snapshot's:
\* device_activated, the three selectors, interrupt_status, driver_status,
\* shm_region_select and every queue's max_size, size, ready and three ring
\* addresses.
C18_SnapshotRestoreFixedPoint ==
    /\ [][(RestoreStep /\ rst'.fresh /\ rst'.ret = "ok") => State' = snap.state]_vars
    /\ [][SnapshotTransport => snap'.state = State]_vars

\* the snapshot of an activated transport with a ready queue restored into
\* a fresh transport
C18_Witness ==
    /\ rst.ret = "ok" /\ rst.fresh
    /\ State = snap.state
    /\ snap.state.device_activated
    /\ snap.state.driver_status = 15
    /\ snap.state.queues[1].ready
    /\ Len(rst.activates) = 1

\* C19: a restore that finds its section and restores the state calls the
\* backing device's activate once, with the ready queues of the restored
\* state, when the restored state has device_activated and driver_status
\* 0x0F, and not at all otherwise; it pushes no activator onto
\* pending_activations and waits on no barrier.
C19_RestoreActivatesIffActivatedAndReady ==
    [][(RestoreStep /\ ~devPoisoned /\ rst'.ret \notin {"missing", "decode", "state"})
       => /\ IF snap.state.device_activated /\ snap.state.driver_status = 15
             THEN /\ Len(rst'.activates) = 1
                  /\ {rst'.activates[1][i].index : i \in 1 .. Len(rst'.activates[1])}
                       = {i - 1 : i \in {j \in 1 .. Len(snap.state.queues) :
                                              snap.state.queues[j].ready}}
                  /\ activateCalls' = activateCalls + 1
             ELSE /\ rst'.activates = <<>>
                  /\ activateCalls' = activateCalls
          /\ pending_activations' = pending_activations
          /\ activate_evt' = activate_evt
          /\ nextBarrier' = nextBarrier
          /\ ~rst'.waited
      ]_vars

\* C20: a restore of a snapshot without the section "{id}-section" returns
\* the missing-section error, changes no field of the transport and calls
\* no operation of the backing device.
C20_MissingSectionChangesNothing ==
    [][(\E idx \in UsedIdxValues, ok \in BOOLEAN : Restore("absent", idx, ok))
       => /\ rst'.ret = "missing"
          /\ rst'.activates = <<>>
          /\ UNCHANGED <<xvars, dvars>>
      ]_vars

\* the missing-section error returned by a transport that is activated while
\* the snapshot holds the state before activation
C20_Witness ==
    /\ rst.ret = "missing"
    /\ snap.taken
    /\ device_activated
    /\ ~snap.state.device_activated
    /\ State # snap.state

C22_NoRegionReadsAllOnesLength ==
    [][\A d \in Dispatchers :
        (/\ pc[d] = "idle" /\ pc'[d] = "read"
         /\ rd'.len = 4 /\ rd'.offset \in {176, 180, 184, 188}
         /\ \/ ~rd'.shm.present
            \/ shm_region_select > Len(rd'.shm.region_list))
        => rd'.after = IF rd'.offset \in {176, 180}
                       THEN [hi16 |-> 65535, lo16 |-> 65535]
                       ELSE [hi16 |-> 0, lo16 |-> 0]
      ]_vars

\* the high half of the length read as all-ones with the selector two past
\* the only region of the device
C22_Witness ==
    /\ rd.offset = 180 /\ rd.len = 4
    /\ rd.shm = DeviceShmRegions
    /\ shm_region_select = 3
    /\ rd.after = [hi16 |-> 65535, lo16 |-> 65535]

\* C30: a 4-byte read of 0x10 yields the low 32 bits of the backing device's
\* features while features_select is 0, the high 32 bits while it is 1 and 0
\* while it is 2 or more; a 4-byte write to 0x14 stores the written value as
\* it is, whatever it is.
C30_FeaturePageBySelector ==
    /\ [][\A d \in Dispatchers :
            (/\ pc[d] = "idle" /\ pc'[d] = "read"
             /\ rd'.offset = 16 /\ rd'.len = 4)
            => rd'.after =
                 IF features_select = 0
                 THEN [hi16 |-> DeviceFeatures.lo \div 65536, lo16 |-> DeviceFeatures.lo % 65536]
                 ELSE IF features_select = 1
                 THEN [hi16 |-> DeviceFeatures.hi \div 65536, lo16 |-> DeviceFeatures.hi % 65536]
                 ELSE [hi16 |-> 0, lo16 |-> 0]
         ]_vars
    /\ [][\A d \in Dispatchers : \A v \in FeaturesSelectValues :
            WriteDecode(d, 20, 4, v) => features_select' = v
         ]_vars
    /\ [](features_select \in FeaturesSelectValues)

\* the selector holds the largest value written and the page reads 0
C30_Witness ==
    /\ features_select = 2147483647
    /\ rd.offset = 16 /\ rd.len = 4
    /\ rd.after = [hi16 |-> 0, lo16 |-> 0]

\* a - b for two 64-bit values, by limbs with borrow, when it lies in
\* 0 .. 65535; None otherwise
Minus64(a, b) ==
    LET r0 == a.lo.lo16 - b.lo.lo16
        r1 == a.lo.hi16 - b.lo.hi16 - (IF r0 < 0 THEN 1 ELSE 0)
        r2 == a.hi.lo16 - b.hi.lo16 - (IF r1 < 0 THEN 1 ELSE 0)
        r3 == a.hi.hi16 - b.hi.hi16 - (IF r2 < 0 THEN 1 ELSE 0)
    IN  IF r3 = 0 /\ (r2 + 65536) % 65536 = 0 /\ (r1 + 65536) % 65536 = 0
        THEN (r0 + 65536) % 65536
        ELSE None

\* C23: ioeventfds(base) returns one entry per queue event, in queue order,
\* each with the address base + 0x50, whenever it is called: before and
\* after activation, reset and restore.
C23_IoeventfdsAtNotify ==
    [](io.called
       => /\ Len(io.ret) = NumQueues
          /\ \A i \in 1 .. Len(io.ret) :
                /\ io.ret[i].event = QueueEvt(i - 1)
                /\ Minus64(io.ret[i].addr, io.base) = 80)

\* the events asked for at a base whose sum carries into the high word,
\* after the transport was activated and restored
C23_Witness ==
    /\ io.called
    /\ io.base = [hi |-> [hi16 |-> 0, lo16 |-> 0], lo |-> [hi16 |-> 65535, lo16 |-> 61440]]
    /\ io.ret[2].addr = [hi |-> [hi16 |-> 0, lo16 |-> 0], lo |-> [hi16 |-> 65535, lo16 |-> 61520]]
    /\ device_activated
    /\ rst.ret = "ok"
    /\ activateCalls = 2

\* C29: in every reachable state the transport has as many queues as queue
\* events and as the backing device declared queue sizes.
C29_QueueCountsAgree ==
    [](/\ Len(queues) = Len(queue_evts)
       /\ Len(queues) = Len(QueueMaxSizes))

\* a transport that was activated, reset and restored with its two queues
C29_Witness ==
    /\ Len(queues) = 2
    /\ rst.ret = "ok"
    /\ ~rst.fresh
    /\ lastReset = "some"
    /\ queues[1].ready

\* the seven transitions C24 lists
AcceptedTransitions ==
    {<<"Created", "Running">>, <<"Created", "Paused">>, <<"Running", "Paused">>,
     <<"Running", "Shutdown">>, <<"Shutdown", "Running">>, <<"Paused", "Running">>,
     <<"Paused", "Shutdown">>}

\* C24: valid_transition accepts Created->Running, Created->Paused,
\* Running->Paused, Running->Shutdown, Shutdown->Running, Paused->Running and
\* Paused->Shutdown and answers InvalidStateTransition to every other pair,
\* every self-transition and every transition into Created among them; the
\* Vm's state moves along accepted transitions only.
C24_ValidTransitions ==
    /\ [](vm.ret # "none"
           => /\ vm.from \in VmStates /\ vm.to \in VmStates
              /\ vm.ret = IF <<vm.from, vm.to>> \in AcceptedTransitions
                          THEN "ok" ELSE "InvalidStateTransition")
    /\ [][vm'.state # vm.state => <<vm.state, vm'.state>> \in AcceptedTransitions]_vars

\* a shut down Vm asked to pause: refused, the state kept
C24_Witness ==
    /\ vm.state = "Shutdown"
    /\ vm.from = "Shutdown" /\ vm.to = "Paused"
    /\ vm.ret = "InvalidStateTransition"
    /\ snap.taken

\* C25: no write both pushes an activator (returning a barrier) and calls
\* the backing device's reset, whatever the worker does to device_activated
\* while the write runs: a write that pushes returns its barrier without
\* reaching the reset test, and the reset is called only by a write that is
\* at the reset test, holds no barrier and pushes nothing.
C25_PushOrResetNotBoth ==
    /\ [](\A d \in Dispatchers : pc[d] = "reset_check" => held[d] = None)
    /\ [][\A d \in Dispatchers :
            (/\ pc[d] = "idle" /\ pc'[d] \in {"returned", "reset_check"}
             /\ Len(pending_activations') > Len(pending_activations))
            => /\ pc'[d] = "returned"
               /\ held'[d] # None
               /\ resetCalls' = 0
               /\ lastReset' = "no"
         ]_vars
    /\ [][resetCalls' > resetCalls
          => \E d \in Dispatchers :
                /\ pc[d] = "reset_check" /\ pc'[d] = "idle"
                /\ held[d] = None /\ held'[d] = None
                /\ pending_activations' = pending_activations
                /\ activate_evt' = activate_evt
         ]_vars

\* vcpu0 waits on the barrier of its activation, the worker has stored
\* device_activated and not yet waited, and vcpu1's write of 0 is at its
\* reset test, which will call reset
C25_Witness ==
    /\ pc["vcpu0"] = "in_barrier"
    /\ wpc = "barrier"
    /\ pc["vcpu1"] = "reset_check"
    /\ held["vcpu1"] = None
    /\ device_activated
    /\ driver_status = 0

\* the status bit of the trigger in progress: 0x2 for Config, 0x1 for a queue
PendingBit == IF trig.kind.type = "config" THEN 2 ELSE 1

\* a 4-byte write of the acknowledge register by some dispatcher
AckStep ==
    \E d \in Dispatchers :
        /\ pc[d] = "idle" /\ pc'[d] \in {"reset_check", "returned"}
        /\ op'.by = d /\ op'.offset = 100 /\ op'.len = 4

\* C26: trigger(kind) sets its bit in interrupt_status before it invokes the
\* sink: the step that sets the bit leaves the sink not yet fired, and from
\* there until the sink is fired nothing clears the bit but an acknowledge
\* of that bit, so that a read of 0x60, which yields interrupt_status, made
\* after the fire sees the bit unless it was acknowledged in between.
C26_BitSetBeforeSinkFires ==
    /\ [][\A kind \in TriggerKinds :
            TriggerFetchOr(kind)
            => /\ trig'.pc = "sink" /\ trig'.fired = <<>>
               /\ BitAnd(interrupt_status', IF kind.type = "config" THEN 2 ELSE 1) # 0
         ]_vars
    /\ [](trig.fired # <<>> => trig.pc = "return")
    /\ [][(/\ trig.pc \in {"sink", "return"}
           /\ BitAnd(interrupt_status, PendingBit) # 0
           /\ BitAnd(interrupt_status', PendingBit) = 0)
          => AckStep /\ BitAnd(op'.v, PendingBit) # 0
         ]_vars
    /\ [][\A d \in Dispatchers :
            (pc[d] = "idle" /\ pc'[d] = "read" /\ rd'.offset = 96 /\ rd'.len = 4)
            => rd'.after.lo16 = interrupt_status
         ]_vars

\* the sink was fired for a queue interrupt and the guest's read of 0x60
\* holds the bit
C26_Witness ==
    /\ trig.pc = "return" /\ trig.fired = <<0>>
    /\ trig.kind = QueueKind(3)
    /\ pc["vcpu0"] = "read"
    /\ rd.offset = 96 /\ rd.len = 4
    /\ rd.after = [hi16 |-> 0, lo16 |-> 1]

\* C27: every change of interrupt_status is one whole update applied to the
\* value it finds, the OR of a trigger's bit or the AND-NOT of an
\* acknowledged value, so that the updates take effect one at a time in the
\* order of their steps: an acknowledge made while a trigger is in progress
\* keeps that trigger's bit unless it names it, and a bit set by a trigger
\* after an acknowledge stays set.
C27_StatusUpdatesAreAtomic ==
    /\ [][interrupt_status' # interrupt_status
          => \/ \E kind \in TriggerKinds : TriggerFetchOr(kind)
             \/ AckStep
         ]_vars
    /\ [][\A kind \in TriggerKinds :
            TriggerFetchOr(kind)
            => interrupt_status' =
                 BitOr(interrupt_status, IF kind.type = "config" THEN 2 ELSE 1)
         ]_vars
    /\ [][AckStep => interrupt_status' = interrupt_status - BitAnd(interrupt_status, op'.v)
         ]_vars
    /\ [][(/\ AckStep
           /\ trig.pc = "sink"
           /\ BitAnd(interrupt_status, PendingBit) # 0
           /\ BitAnd(op'.v, PendingBit) = 0)
          => BitAnd(interrupt_status', PendingBit) # 0
         ]_vars

\* an acknowledge of the queue bit made between the OR and the sink of a
\* config trigger: the config bit is still set
C27_Witness ==
    /\ trig.pc = "sink" /\ trig.kind = ConfigKind
    /\ pc["vcpu0"] = "reset_check"
    /\ op.offset = 100 /\ op.len = 4 /\ op.v = 1
    /\ interrupt_status = 2

\* C28: a restore that returns Ok leaves every queue with the used ring
\* address of the snapshot and with next_avail and next_used both equal to
\* the used index guest memory holds at that address, whatever the two
\* cursors were before the restore.
C28_CursorsFromUsedIndex ==
    [][\A section \in Sections, idx \in UsedIdxValuesCursor, ok \in BOOLEAN :
          (rst.ret = "none" /\ rst'.ret = "ok" /\ Restore(section, idx, ok))
          => \A i \in 1 .. NumQueues :
                /\ queues'[i].used_ring = snap.state.queues[i].used_ring
                /\ queues'[i].next_avail = UsedIdxAt(idx, queues'[i].used_ring)
                /\ queues'[i].next_used = UsedIdxAt(idx, queues'[i].used_ring)
      ]_vars

\* a restore returned Ok over queues whose used rings lie at different
\* addresses: the cursors of each are the index at its own address, here
\* 65535 for queue 0 and the 16-bit wrap of 65535 + 1 for queue 1
C28_Witness ==
    /\ rst.ret = "ok" /\ ~rst.fresh
    /\ queues[1].used_ring.lo = 0 /\ queues[2].used_ring.lo = 4
    /\ queues[1].next_avail = 65535 /\ queues[1].next_used = 65535
    /\ queues[2].next_avail = 0 /\ queues[2].next_used = 0

\* C31: a 4-byte write of v to 0x70 stores v whatever driver_status was;
\* the write ends with driver_status = v, except that a write of 0 that finds
\* the device activated and whose reset returns None ends with the FAILED
\* value; nothing but a write changes driver_status, and a read of 0x70
\* returns driver_status.
C31_StatusMirrorsGuest ==
    /\ [][\A d \in Dispatchers :
            (/\ pc[d] = "idle" /\ pc'[d] \in {"reset_check", "returned"}
             /\ op'.by = d /\ op'.offset = 112 /\ op'.len = 4)
            => driver_status' = op'.v
         ]_vars
    /\ [][\A d \in Dispatchers :
            (/\ pc[d] = "reset_check" /\ pc'[d] = "idle"
             /\ op.by = d /\ op.offset = 112 /\ op.len = 4)
            => /\ driver_status' =
                    IF op.v = 0 /\ device_activated /\ lastReset' = "none"
                    THEN DEVICE_FAILED ELSE op.v
               /\ lastReset' = "none" => (op.v = 0 /\ device_activated)
         ]_vars
    /\ [][driver_status' # driver_status
          => \E d \in Dispatchers :
                \/ pc[d] = "idle" /\ pc'[d] \in {"reset_check", "returned"}
                \/ pc[d] = "reset_check" /\ pc'[d] = "idle"
         ]_vars
    /\ [][\A d \in Dispatchers :
            (pc[d] = "idle" /\ pc'[d] = "read" /\ rd'.offset = 112 /\ rd'.len = 4)
            => rd'.after = U32(driver_status)
         ]_vars

\* the guest wrote 2147483647 over the ready bits of an activated device and
\* reads it back
C31_Witness ==
    /\ device_activated
    /\ op.offset = 112 /\ op.len = 4 /\ op.v = 2147483647
    /\ pc["vcpu0"] = "read"
    /\ rd.offset = 112 /\ rd.len = 4
    /\ rd.after = [hi16 |-> 32767, lo16 |-> 65535]

\* a step of a write of some dispatcher: the decode or the reset test
WriteStep ==
    \E d \in Dispatchers :
        \/ pc[d] = "idle" /\ pc'[d] \in {"reset_check", "returned"}
        \/ pc[d] = "reset_check" /\ pc'[d] = "idle"

\* C32: an activator is a frozen view.  No write changes an activator that
\* was built before it, whether it is pending, drained or being run, and
\* the list the backing device receives when the activator is run holds
\* the queues that were ready when it was built, with the fields they had
\* then, whatever the transport's queue registers hold by that time.
C32_ActivatorIsFrozen ==
    /\ [][WriteStep
          => /\ Len(pending_activations') >= Len(pending_activations)
             /\ \A i \in 1 .. Len(pending_activations) :
                   pending_activations'[i] = pending_activations[i]
             /\ draining' = draining
             /\ act' = act
         ]_vars
    /\ [](wpc \in {"barrier", "in_barrier", "return_ok", "return_err"}
          => /\ {act.handed[k].index + 1 : k \in 1 .. Len(act.handed)}
                   = ReadyIndexes(act.snap)
             /\ Len(act.handed) = Cardinality(ReadyIndexes(act.snap))
             /\ \A k \in 1 .. Len(act.handed) :
                   act.handed[k].queue = act.snap[act.handed[k].index + 1])

\* the backing device was handed queue 0 with the size it had when the
\* activator was built, while the transport has since made queue 1 ready
\* and changed the size of queue 0
C32_Witness ==
    /\ wpc \in {"barrier", "in_barrier", "return_ok"}
    /\ Len(act.handed) = 1 /\ act.handed[1].index = 0
    /\ queues[2].ready
    /\ queues[1].size # act.handed[1].queue.size

\* C33: every activator that has been built and not yet run holds an
\* interrupt adapter, the guest memory and a queue list, so that running it
\* finds none of them absent and the worker never panics in it.
C33_ActivatorHoldsAdapter ==
    /\ \A a \in InFlight : a.interrupt # NoIntx /\ a.memory
    /\ wpc # "panicked"

\* C34: maybe_activate called on a transport that needs activation and
\* whose backing activate succeeds calls activate once and leaves
\* device_activated true; called when no activation is needed it changes
\* nothing; and in either case the call returns by the caller's own steps,
\* no other thread having to act.
C34_MaybeActivateReturns ==
    /\ [][(ma.pc = "idle" /\ ma'.pc = "barrier")
          => /\ ~device_activated /\ driver_status = ReadyBits
             /\ device_activated'
             /\ activateCalls' = activateCalls + 1
             /\ lastActivate' = "ok"
         ]_vars
    /\ [][(ma.pc = "idle" /\ ma'.pc = "return")
          => /\ ~NeedsActivation(device_activated, driver_status)
             /\ UNCHANGED <<xvars, bvars, dvars, tvars, wvars>>
         ]_vars
    /\ (ma.pc = "return") ~> (ma.pc = "idle")
    /\ (ma.pc = "barrier") ~> (ma.pc = "return")

\* the values a shared-memory register can hold for the device shm: the
\* halves of the length and of the address of one of its regions, or of the
\* no-region pair
ShmRegisterValues(offset, shm) ==
    LET regions == {NoShmRegion}
                   \cup {[offset |-> U64(U32(0), U32(shm.region_list[i].offset + shm.addr)),
                           len |-> U64(U32(shm.region_list[i].len.hi),
                                       U32(shm.region_list[i].len.lo))] :
                          i \in 1 .. Len(shm.region_list)}
    IN  {CASE offset = 176 -> r.len.lo
           [] offset = 180 -> r.len.hi
           [] offset = 184 -> r.offset.lo
           [] offset = 188 -> r.offset.hi : r \in regions}

\* C35: a 4-byte read of 0xB0, 0xB4, 0xB8 or 0xBC completes for every value
\* of shm_region_select and every region list of the backing device, the
\* selector equal to the list length included: no dispatcher faults in a
\* read, and the value read is a field of an existing region or of the
\* no-region pair.
C35_ShmReadCompletes ==
    /\ [](\A d \in Dispatchers : pc[d] # "panicked")
    /\ [][\A d \in Dispatchers :
            (pc[d] = "idle" /\ pc'[d] = "read" /\ rd'.offset \in {176, 180, 184, 188}
             /\ rd'.len = 4)
            => rd'.after \in ShmRegisterValues(rd'.offset, rd'.shm)
         ]_vars

\* a restore step that returns the error of a used-index read or of the
\* backing device's activate
RestoreFails == rst.ret = "none" /\ rst'.ret \in {"state", "activate"}

\* the fields of a queue that set_state assigns before it reads the used index
RestoredFields(q) ==
    [size |-> q.size, ready |-> q.ready, desc_table |-> q.desc_table,
     avail_ring |-> q.avail_ring, used_ring |-> q.used_ring]

\* C36 as stated: a restore that returns the error of a used-index read or
\* of the activation leaves device_activated, driver_status, the selectors,
\* interrupt_status and every field of every queue as they were before.
C36_FailedRestoreChangesNothing ==
    [][RestoreFails
       => /\ device_activated' = device_activated
          /\ driver_status' = driver_status
          /\ features_select' = features_select
          /\ acked_features_select' = acked_features_select
          /\ queue_select' = queue_select
          /\ shm_region_select' = shm_region_select
          /\ interrupt_status' = interrupt_status
          /\ queues' = queues
      ]_vars

\* C36 amended: a restore that returns an error keeps what set_state had
\* assigned by then.  device_activated, features_select,
\* acked_features_select, queue_select, interrupt_status and driver_status
\* hold the values of the snapshot record.  After the error of a used-index
\* read at queue k, the queues before k are restored with their cursors,
\* queue k has the size, ready flag and ring addresses of the record and
\* the cursors it had, the queues after k and shm_region_select are as they
\* were.  After the error of the activation every queue and
\* shm_region_select are restored.
C36_FailedRestoreKeepsPartialState ==
    [][RestoreFails
       => /\ device_activated' = snap.state.device_activated
          /\ driver_status' = snap.state.driver_status
          /\ features_select' = snap.state.features_select
          /\ acked_features_select' = snap.state.acked_features_select
          /\ queue_select' = snap.state.queue_select
          /\ interrupt_status' = snap.state.interrupt_status
          /\ rst'.ret = "activate"
               => /\ shm_region_select' = snap.state.shm_region_select
                  /\ \A i \in 1 .. NumQueues :
                        /\ RestoredFields(queues'[i]) = RestoredFields(snap.state.queues[i])
                        /\ queues'[i].next_avail = queues'[i].next_used
          /\ rst'.ret = "state"
               => /\ shm_region_select' = shm_region_select
                  /\ \E k \in 1 .. NumQueues :
                        /\ ~UsedIdxReadable(snap.state.queues[k].used_ring)
                        /\ RestoredFields(queues'[k]) = RestoredFields(snap.state.queues[k])
                        /\ queues'[k].next_avail = queues[k].next_avail
                        /\ queues'[k].next_used = queues[k].next_used
                        /\ \A i \in 1 .. (k - 1) :
                              /\ UsedIdxReadable(snap.state.queues[i].used_ring)
                              /\ RestoredFields(queues'[i])
                                   = RestoredFields(snap.state.queues[i])
                        /\ \A i \in (k + 1) .. NumQueues : queues'[i] = queues[i]
      ]_vars

\* a restore into a newly built transport returned the error of a used-index
\* read: the transport is no longer as new built it, it holds the status and
\* the flag of the record
C36_Witness ==
    /\ rst.ret = "state" /\ rst.fresh
    /\ device_activated /\ driver_status = 15
    /\ ~UsedIdxReadable(queues[1].used_ring)

\* C37: in every state reachable from construction by writes, reads,
\* interrupt triggers, activations, resets and restores of snapshots taken
\* from such states, interrupt_status has no bit set other than USED_RING
\* (0x1) and CONFIG_CHANGED (0x2), and a device reset leaves
\* interrupt_status as it was.
C37_OnlyTwoStatusBits ==
    /\ [](BitAnd(interrupt_status,
                 BitOr(INTERRUPT_STATUS_USED_RING, INTERRUPT_STATUS_CONFIG_CHANGED))
            = interrupt_status)
    /\ [](snap.taken => snap.state.interrupt_status \in 0 .. 3)
    /\ [][\A d \in Dispatchers :
            (pc[d] = "reset_check" /\ resetCalls' # resetCalls)
                => interrupt_status' = interrupt_status]_vars

\* both bits are pending on a transport whose device the guest has reset and
\* that has not been activated since
C37_Witness ==
    /\ interrupt_status = 3
    /\ lastReset = "some" /\ ~device_activated /\ activateCalls = 0
    /\ \A d \in Dispatchers : pc[d] = "idle"

\* a step of one of the five operations that move the Vm's state
VmOperationStep == vm' # vm /\ vm'.op \in VmOperations

\* C38: the Vm's state changes only along transitions valid_transition
\* accepts: pause, resume, shutdown, boot and restore each check the
\* transition from the current state to their target (Paused, Running,
\* Shutdown, Running, Paused) before acting, return an error and leave the
\* state unchanged when the check or a later step fails, and boot called in
\* state Paused behaves as resume.
C38_StateMovesOnValidTransitions ==
    /\ [][vm'.state # vm.state
          => /\ <<vm.state, vm'.state>> \in AcceptedTransitions
             /\ vm'.op \in VmOperations /\ vm'.ret = "ok"
             /\ vm'.state = vm'.to]_vars
    /\ [][VmOperationStep
          => /\ vm'.from = vm.state
             /\ vm'.to = CASE vm'.op \in {"pause", "restore"} -> "Paused"
                            [] vm'.op \in {"resume", "boot"} -> "Running"
                            [] vm'.op = "shutdown" -> "Shutdown"
             /\ <<vm.state, vm'.to>> \notin AcceptedTransitions
                  => vm'.ret = "InvalidStateTransition"
             /\ vm'.ret # "ok" => vm'.state = vm.state
             /\ vm'.ret = "ok" => vm'.state = vm'.to]_vars
    /\ [][(VmOperationStep /\ vm'.op = "boot" /\ vm.state = "Paused")
          => /\ vm'.ret \in {"ok", "StepFailed"}
             /\ vm'.state = IF vm'.ret = "ok" THEN "Running" ELSE "Paused"]_vars

\* the pause of a running Vm failed in a step after the check: the Vm is
\* still Running
C38_Witness ==
    /\ vm.op = "pause" /\ vm.ret = "StepFailed"
    /\ vm.from = "Running" /\ vm.state = "Running"

\* a call of Vm::snapshot
VmSnapshotStep == vm'.op = "snapshot" /\ (vm' # vm \/ snap' # snap)

\* C39: Vm::snapshot succeeds only when the Vm is Paused: called in state
\* Created, Running or Shutdown it returns a snapshot error without
\* snapshotting any component, and it never changes the Vm's state.
C39_SnapshotNeedsPaused ==
    /\ [][VmSnapshotStep
          => /\ vm'.state = vm.state
             /\ vm'.ret = "ok" => vm.state = "Paused"
             /\ vm.state \in {"Created", "Running", "Shutdown"}
                  => vm'.ret = "SnapshotError" /\ snap' = snap]_vars
    /\ [][snap' # snap => vm.state = "Paused" /\ vm'.op = "snapshot" /\ vm'.ret = "ok"]_vars

\* Vm::snapshot refused a Shutdown Vm whose device the guest had activated:
\* no snapshot exists
C39_Witness ==
    /\ vm.op = "snapshot" /\ vm.ret = "SnapshotError"
    /\ vm.state = "Shutdown"
    /\ device_activated /\ ~snap.taken

====
